---- MODULE Spec2Model ----
(***************************************************************************)
(* Protocol gateway of the CNiS Universal MCP Server: the authentication   *)
(* layer (middleware/auth), the Express middleware stack and its rate      *)
(* limiters (http-server, middleware/rate-limit, middleware/security), the *)
(* REST and HTTP JSON-RPC adapters and the WebSocket connect path.         *)
(***************************************************************************)
EXTENDS Integers, Sequences, FiniteSets, TLC

VARIABLES
    apiKeys,        \* AuthMiddleware.apiKeys: key id -> [key, permissions, active]
    authEnabled,    \* config.security.authentication.enabled
    wsAuthSet,      \* WebSocketMcpProtocolHandler.authMiddleware is defined
    client,         \* the credentials the client of this run presents
    limits,         \* the max each rateLimit() instance was constructed with
    hits,           \* express-rate-limit stores: limiter -> key -> hit count
    connections,    \* WebSocketMcpProtocolHandler.connections: id -> connection
    invoked,        \* tool -> handler invocations over HTTP in the current 60 s
    last,           \* the last exchange: the request or connect attempt and its outcome
    swConfig,       \* getSlidingWindowRateLimit(windowMs, maxRequests): its arguments
    windows,        \* getSlidingWindowRateLimit: key -> accepted timestamps
    now,            \* Date.now(), in milliseconds
    slog,           \* history of the sliding-window limiter's decisions
    sockets,        \* the ws sockets accepted so far, by connection id: readyState
    wsCalls,        \* the messages received over WebSocket and their handling
    sent,           \* by connection id: the messages written with ws.send
    heartbeats,     \* runs of the heartbeat interval callback
    rpc,            \* the last JSON-RPC or REST body handled and the answer to it
    gate,           \* the last permission gate run and what it did
    reg,            \* tool-registry: toolsCache and the calls of getUniversalTools
    srv,            \* UniversalMcpServer: configuration, start-up and shutdown
    tmo             \* the requests in flight under the timeout middleware

vars == <<apiKeys, authEnabled, wsAuthSet, client, limits, hits, connections, invoked,
          last, swConfig, windows, now, slog, sockets, wsCalls, sent, heartbeats, rpc,
          gate, reg, srv, tmo>>

httpVars == <<apiKeys, authEnabled, wsAuthSet, client, limits, hits, connections, invoked,
              last>>
slidingVars == <<swConfig, windows, now, slog>>
wsVars == <<sockets, wsCalls, sent, heartbeats>>
rpcVars == <<rpc>>
gateVars == <<gate>>
procVars == <<reg, srv, tmo>>

None == "none"

-----------------------------------------------------------------------------
(* Credentials                                                             *)

AdminSecret == "admin-secret-key-0001"     \* process.env.ADMIN_API_KEY
UnknownSecret == "not-a-registered-key"    \* a key no record was created for
ShortSecret == "short"                     \* an unregistered key of <= 10 characters
Secrets == {AdminSecret, UnknownSecret, ShortSecret}

ReadOnly == {"read"}
AdminPermissions == {"read", "analyze", "admin", "stream"}

JwtSecret == "server-signing-secret"       \* AuthMiddleware.jwtSecret
OtherSecret == "attacker-signing-secret"

\* Bearer tokens a client may hold, by name.
TokenNames == {"t_signed", "t_noclaim", "t_forged", "t_garbage"}

\* The decoded payload of each token and the secret that signed it.
TokenData(t) ==
    CASE t = "t_signed"  -> [wellFormed |-> TRUE, signedWith |-> JwtSecret,
                             userId |-> "alice", hasPermissions |-> TRUE,
                             permissions |-> {"read", "analyze"}]
      [] t = "t_noclaim" -> [wellFormed |-> TRUE, signedWith |-> JwtSecret,
                             userId |-> "bob", hasPermissions |-> FALSE,
                             permissions |-> {}]
      [] t = "t_forged"  -> [wellFormed |-> TRUE, signedWith |-> OtherSecret,
                             userId |-> "mallory", hasPermissions |-> TRUE,
                             permissions |-> AdminPermissions]
      [] OTHER           -> [wellFormed |-> FALSE, signedWith |-> None,
                             userId |-> None, hasPermissions |-> FALSE,
                             permissions |-> {}]

\* bcrypt.hashSync: a one-way image of the key.
hashApiKey(key) == <<"bcrypt", key>>

\* bcrypt.compareSync(providedKey, hashedKey)
compareSync(providedKey, hashedKey) == hashedKey = <<"bcrypt", providedKey>>

\* jwt.verify(token, secret): succeeds for a well-formed token signed with secret.
jwtVerify(token, secret) ==
    /\ token # None
    /\ TokenData(token).wellFormed
    /\ TokenData(token).signedWith = secret

\* jwt.decode(token): the payload of any well-formed token, unverified; else null.
jwtDecode(token) == token # None /\ TokenData(token).wellFormed

\* decoded.permissions || ['read']
decodedPermissions(token) ==
    IF TokenData(token).hasPermissions THEN TokenData(token).permissions ELSE ReadOnly

\* The ids of the records verifyApiKey accepts for providedKey.
verifyApiKeyMatches(providedKey, store) ==
    {id \in DOMAIN store : compareSync(providedKey, store[id].key) /\ store[id].active}

\* AuthMiddleware.verifyApiKey: the id of the matching active record, or None.
verifyApiKey(providedKey, store) ==
    IF verifyApiKeyMatches(providedKey, store) = {} THEN None
    ELSE CHOOSE id \in verifyApiKeyMatches(providedKey, store) : TRUE

\* AuthMiddleware.initializeDefaultApiKeys with ADMIN_API_KEY set.
initializeDefaultApiKeys ==
    [id \in {"admin"} |->
        [key |-> hashApiKey(AdminSecret), permissions |-> AdminPermissions, active |-> TRUE]]

-----------------------------------------------------------------------------
(* Tool registry                                                           *)

ToolNames == {"get_top_crypto_news"}
UnknownTool == "no_such_tool"

\* UniversalTool.permissions of every registered tool.
ToolPermissions(tool) == {"read", "analyze"}

-----------------------------------------------------------------------------
(* Requests                                                                *)

ClientIp == "203.0.113.7"

\* The JSON-RPC bodies a client posts to /mcp: <<jsonrpc, method, params.name>>.
McpBodies ==
    { <<"2.0", "tools/call", "get_top_crypto_news">>,
      <<"2.0", "tools/call", UnknownTool>>,
      <<"2.0", "tools/list", None>>,
      <<"1.0", "tools/call", "get_top_crypto_news">> }

Request(method, path, c, jsonrpc, rpcMethod, tool) ==
    [method |-> method, path |-> path, ip |-> ClientIp,
     apiKey |-> c.apiKey, token |-> c.token,
     jsonrpc |-> jsonrpc, rpcMethod |-> rpcMethod, tool |-> tool]

\* The requests a client holding credentials c sends; /auth/login carries the key
\* in its body as well.
ClientRequests(c) ==
    { Request("GET", "/health", c, None, None, None),
      Request("GET", "/api/health", c, None, None, None),
      Request("POST", "/auth/login", c, None, None, None) }
    \cup { Request("POST", "/api/tools/:toolName", c, None, None, t) :
             t \in ToolNames \cup {UnknownTool} }
    \cup { Request("POST", "/mcp", c, b[1], b[2], b[3]) : b \in McpBodies }

Clients == [apiKey : Secrets \cup {None}, token : TokenNames \cup {None}]

\* The request state the auth middlewares write: req.permissions, req.apiKey, req.userId.
AuthState(permissions, apiKey, userId) ==
    [permissions |-> permissions, apiKey |-> apiKey, userId |-> userId]

NoAuth == AuthState({}, None, None)

-----------------------------------------------------------------------------
(* middleware/security                                                     *)

\* SecurityMiddleware.healthCheckBypass: req.isHealthCheck
healthCheckBypass(req) == req.path = "/health" \/ req.path = "/api/health"

\* SecurityMiddleware.validateRequest: 0 to call next(), else the status it answers.
\* Requests are sent as application/json and below the size limit.
validateRequest(req) ==
    IF /\ req.path = "/mcp"
       /\ req.method = "POST"
       /\ req.jsonrpc # None
       /\ req.jsonrpc # "2.0"
    THEN 400
    ELSE 0

-----------------------------------------------------------------------------
(* middleware/rate-limit: express-rate-limit instances                     *)

\* The limiters' maxima, scaled down from 100 (config.security.rateLimit.max),
\* 100 (getApiRateLimit) and 200 (getProtocolRateLimit('http-mcp')), and the
\* maximum of a tool-specific limiter of (60 s, 2).
GlobalMax == 3
ApiMax == 3
ProtocolMax == 3
ToolMax == 2

\* The maximum of every limiter in the runs that exercise the credentials.
TightMax == 1

Limiters == {"global", "api", "http-mcp"}

LimiterMax ==
    [l \in Limiters |->
        CASE l = "global" -> GlobalMax
          [] l = "api" -> ApiMax
          [] OTHER -> ProtocolMax]

\* keyGenerator of every limiter: the x-api-key header if present, else the address.
keyGenerator(req) == IF req.apiKey # None THEN req.apiKey ELSE req.ip

LimiterKeys == Secrets \cup {ClientIp}

\* skip of getGlobalRateLimit; the other limiters configure none.
limiterSkips(limiter, req) == limiter = "global" /\ healthCheckBypass(req)

\* Whether the limiter is mounted on the request's path (setupMiddleware).
limiterApplies(limiter, req) ==
    CASE limiter = "global" -> TRUE
      [] limiter = "api" -> req.path \in {"/api/health", "/api/tools/:toolName"}
      [] OTHER -> req.path = "/mcp"

\* One rateLimit() middleware: count the hit unless skipped; pass while the count
\* is within max. Yields the store after the request and whether next() is called.
rateLimit(h, max, limiter, req) ==
    IF ~limiterApplies(limiter, req) \/ limiterSkips(limiter, req)
    THEN [hits |-> h, pass |-> TRUE]
    ELSE LET h2 == [h EXCEPT ![limiter][keyGenerator(req)] = @ + 1]
         IN  [hits |-> h2, pass |-> h2[limiter][keyGenerator(req)] <= max[limiter]]

-----------------------------------------------------------------------------
(* middleware/auth                                                         *)

\* An optional authentication that trusts a presented key without verifying it.
optionalAuthTrusting(req, store) ==
    IF req.apiKey # None
    THEN AuthState(AdminPermissions, req.apiKey, None)
    ELSE AuthState(ReadOnly, None, None)

\* AuthMiddleware.optionalAuth
optionalAuth(req, store) ==
    LET keyId == IF req.apiKey # None THEN verifyApiKey(req.apiKey, store) ELSE None
        afterKey == IF keyId # None
                    THEN AuthState(store[keyId].permissions, keyId, None)
                    ELSE AuthState(ReadOnly, None, None)
    IN  IF jwtVerify(req.token, JwtSecret)
        THEN AuthState(decodedPermissions(req.token), afterKey.apiKey,
                       TokenData(req.token).userId)
        ELSE afterKey

\* requireAuth as it behaves with authentication disabled, whatever the configuration.
requireAuthDisabled(req, store, enabled, auth) ==
    [ok |-> TRUE, auth |-> [auth EXCEPT !.permissions = {"read", "analyze"}]]

\* AuthMiddleware.requireAuth, run on the request state `auth` left by optionalAuth:
\* [ok, auth], ok = FALSE when it answers 401.
requireAuth(req, store, enabled, auth) ==
    IF ~enabled
    THEN [ok |-> TRUE, auth |-> [auth EXCEPT !.permissions = {"read", "analyze"}]]
    ELSE LET keyId == IF req.apiKey # None THEN verifyApiKey(req.apiKey, store) ELSE None
         IN  IF keyId # None
             THEN [ok |-> TRUE,
                   auth |-> [auth EXCEPT !.permissions = store[keyId].permissions,
                                         !.apiKey = keyId]]
             ELSE IF jwtVerify(req.token, JwtSecret)
             THEN [ok |-> TRUE,
                   auth |-> [auth EXCEPT !.permissions = decodedPermissions(req.token),
                                         !.userId = TokenData(req.token).userId]]
             ELSE [ok |-> FALSE, auth |-> [auth EXCEPT !.permissions = {}]]

\* AuthMiddleware.login with body {apiKey}: 200 and a token, or 401.
login(req, store) ==
    IF req.apiKey # None /\ verifyApiKey(req.apiKey, store) # None THEN 200 ELSE 401

\* A revoke that flips `active` instead of clearing it.
revokeApiKeyToggle(keyId, store) ==
    IF keyId \in DOMAIN store THEN [store EXCEPT ![keyId].active = ~@] ELSE store

\* AuthMiddleware.revokeApiKey
revokeApiKey(keyId, store) ==
    IF keyId \in DOMAIN store THEN [store EXCEPT ![keyId].active = FALSE] ELSE store

-----------------------------------------------------------------------------
(* protocols/rest-api and protocols/http-mcp                               *)

\* What one exchange produced: the status (the close code for a WebSocket connect),
\* the middleware or handler that answered, the request state the auth layer left,
\* the tool whose handler ran, the JSON-RPC method executed and the JSON-RPC error
\* code (0 for none).
Response(status, by, auth, handler, dispatched, code) ==
    [status |-> status, by |-> by,
     permissions |-> auth.permissions, apiKey |-> auth.apiKey, userId |-> auth.userId,
     handler |-> handler, dispatched |-> dispatched, code |-> code]

\* RestApiProtocolHandler.handleToolExecution with handleToolRequest: an unknown
\* name throws 'Tool not found', answered 404; else the tool's handler runs.
handleToolExecution(req, auth) ==
    IF req.tool \in ToolNames
    THEN Response(200, "rest-api", auth, req.tool, None, 0)
    ELSE Response(404, "rest-api", auth, None, None, 0)

\* HttpMcpProtocolHandler.handleToolCall
handleToolCall(req, auth) ==
    IF req.tool = None \/ req.tool \notin ToolNames
    THEN Response(200, "http-mcp", auth, None, "tools/call", -32602)
    ELSE Response(200, "http-mcp", auth, req.tool, "tools/call", 0)

\* HttpMcpProtocolHandler.handleJsonRpc
handleJsonRpc(req, auth) ==
    IF req.jsonrpc # "2.0" \/ req.rpcMethod = None
    THEN Response(200, "http-mcp", auth, None, None, -32600)
    ELSE IF req.rpcMethod = "tools/call" THEN handleToolCall(req, auth)
    ELSE IF req.rpcMethod \in {"initialize", "tools/list", "resources/list", "prompts/list"}
    THEN Response(200, "http-mcp", auth, None, req.rpcMethod, 0)
    ELSE Response(200, "http-mcp", auth, None, None, -32601)

\* setupProtocols: the route the request reaches once the middleware stack let it by.
route(req, store, enabled, auth) ==
    CASE req.path = "/api/health" -> Response(200, "rest-api", auth, None, None, 0)
      [] req.path = "/api/tools/:toolName" -> handleToolExecution(req, auth)
      [] req.path = "/mcp" ->
            LET r == requireAuth(req, store, enabled, auth)
            IN  IF r.ok THEN handleJsonRpc(req, r.auth)
                ELSE Response(401, "requireAuth", r.auth, None, None, 0)
      [] req.path = "/auth/login" -> Response(login(req, store), "login", auth, None, None, 0)
      [] OTHER -> Response(200, "handleHealthCheck", auth, None, None, 0)

\* The middleware mounted on the request's path after the limiters, in the order
\* setupMiddleware and setupProtocols install it, down to the handler that answers.
routeSteps(req, resp) ==
    <<"optionalAuth">>
    \o (IF req.path = "/mcp" THEN <<"requireAuth">> ELSE <<>>)
    \o (IF resp.by = "requireAuth" THEN <<>> ELSE <<resp.by>>)

\* The limiter middleware run for the request, in mount order, up to limiter `upTo`.
limiterSteps(req, upTo) ==
    <<"getGlobalRateLimit">>
    \o (IF upTo # "global" /\ limiterApplies("api", req)
        THEN <<"getApiRateLimit">> ELSE <<>>)
    \o (IF upTo = "http-mcp" /\ limiterApplies("http-mcp", req)
        THEN <<"getProtocolRateLimit">> ELSE <<>>)

\* setupMiddleware: validateRequest, the three limiters, optionalAuth, then the route.
\* Yields the response, the limiter stores after the request and the middleware
\* the request went through, in order.
pipeline(req, store, enabled, max, h) ==
    LET v == validateRequest(req)
        g == rateLimit(h, max, "global", req)
        a == rateLimit(g.hits, max, "api", req)
        p == rateLimit(a.hits, max, "http-mcp", req)
        r == route(req, store, enabled, optionalAuth(req, store))
    IN  IF v # 0
        THEN [resp |-> Response(v, "validateRequest", NoAuth, None, None, 0), hits |-> h,
              steps |-> <<"validateRequest">>]
        ELSE IF ~g.pass
        THEN [resp |-> Response(429, "getGlobalRateLimit", NoAuth, None, None, 0),
              hits |-> g.hits,
              steps |-> <<"validateRequest">> \o limiterSteps(req, "global")]
        ELSE IF ~a.pass
        THEN [resp |-> Response(429, "getApiRateLimit", NoAuth, None, None, 0),
              hits |-> a.hits,
              steps |-> <<"validateRequest">> \o limiterSteps(req, "api")]
        ELSE IF ~p.pass
        THEN [resp |-> Response(429, "getProtocolRateLimit", NoAuth, None, None, 0),
              hits |-> p.hits,
              steps |-> <<"validateRequest">> \o limiterSteps(req, "http-mcp")]
        ELSE [resp |-> r,
              hits |-> p.hits,
              steps |-> <<"validateRequest">> \o limiterSteps(req, "http-mcp")
                        \o routeSteps(req, r)]

-----------------------------------------------------------------------------
(* protocols/websocket-mcp: connect                                        *)

MaxConnections == 1

\* WebSocketMcpProtocolHandler.validateApiKey
validateApiKey(apiKey) == Len(apiKey) > 10

\* WebSocketMcpProtocolHandler.validateJwtToken
validateJwtToken(token) == jwtDecode(token)

\* WebSocketMcpProtocolHandler.authenticateConnection
authenticateConnection(req, authSet) ==
    IF ~authSet THEN TRUE
    ELSE \/ req.apiKey # None /\ validateApiKey(req.apiKey)
         \/ req.token # None /\ validateJwtToken(req.token)

\* WebSocketMcpProtocolHandler.getConnectionPermissions
getConnectionPermissions(req, authSet) ==
    IF ~authSet THEN {"read", "analyze"}
    ELSE IF req.apiKey # None THEN {"read", "analyze", "stream"}
    ELSE IF req.token # None /\ jwtDecode(req.token) THEN decodedPermissions(req.token)
    ELSE ReadOnly

ConnectRequest(c) == Request("GET", "/mcp/ws", c, None, None, None)

\* A connection id not used before (uuidv4()).
NewConnectionId == Len(sockets) + 1

\* A message written to a socket: its kind, the call it belongs to (0 for none),
\* the JSON-RPC error code (0 for none) and the number of the progress update.
WsMessage(type, call, code, n) == [type |-> type, call |-> call, code |-> code, n |-> n]

\* A socket as the ws library keeps it, with what is remembered of its life: what
\* closed it, the heartbeat cycles since its last pong, and the number of messages
\* written to it when it closed.
Socket(readyState, closedBy, cycles, sentAtClose) ==
    [readyState |-> readyState, closedBy |-> closedBy, cycles |-> cycles,
     sentAtClose |-> sentAtClose]

\* sendMessage that writes whatever the socket's readyState.
sendMessageUnchecked(log, socks, id, message) ==
    [log EXCEPT ![id] = Append(@, message)]

\* WebSocketMcpProtocolHandler.sendMessage: the log of sent messages after it.
sendMessage(log, socks, id, message) ==
    IF socks[id].readyState = "OPEN"
    THEN [log EXCEPT ![id] = Append(@, message)]
    ELSE log

\* The socket leaves OPEN; the first cause and the count of messages are kept.
closeSocket(socks, log, id, readyState, cause) ==
    [socks EXCEPT ![id] =
        IF @.closedBy = None
        THEN Socket(readyState, cause, @.cycles, Len(log[id]))
        ELSE [@ EXCEPT !.readyState = readyState]]

\* connections.delete(id)
deleteConnection(conns, id) == [i \in DOMAIN conns \ {id} |-> conns[i]]

-----------------------------------------------------------------------------
(* JSON-RPC and REST bodies: entries, batches and tool parameters          *)

MaxBatch == 3

\* JSON ids are held as their JSON text. The id of a response whose request could
\* not be read is null.
NullId == "null"

\* The ids a client supplies: a number, zero and the empty string.
RpcIds == {"1", "0", "''"}

\* JavaScript `id || null`: a falsy id (0, '', null) becomes null.
idOrNull(id) == IF id \in {"0", "''", NullId} THEN NullId ELSE id

\* What the message of an exception thrown by a tool handler may contain.
MessageTexts == {"plain", "includes 'Invalid'", "includes 'not found'"}

\* One entry of a body: a JSON object or null; for an object its jsonrpc, id and
\* method, the tool name and whether the arguments satisfy the tool's schema, and
\* whether the tool's work succeeds once its handler runs.
Entry(shape, jsonrpc, id, method, name, args, outcome) ==
    [shape |-> shape, jsonrpc |-> jsonrpc, id |-> id, method |-> method,
     name |-> name, args |-> args, outcome |-> outcome]

NullEntry == Entry("null", None, NullId, None, None, None, None)

\* The entries of a JSON-RPC batch.
RpcEntries ==
    { Entry("object", "2.0", id, "tools/list", None, "valid", "ok") : id \in RpcIds }
    \cup { Entry("object", "2.0", id, "tools/call", t, a, "ok") :
             id \in RpcIds, t \in ToolNames, a \in {"valid", "invalid"} }
    \cup { Entry("object", "2.0", id, "tools/call", t, "valid", "throws") :
             id \in RpcIds, t \in ToolNames }
    \cup { Entry("object", "2.0", id, "tools/call", UnknownTool, "valid", "ok") :
             id \in RpcIds }
    \cup { Entry("object", v, id, "tools/list", None, "valid", "ok") :
             v \in {"1.0", None}, id \in RpcIds }
    \cup { NullEntry }

\* The sub-requests {tool, params} of a REST batch.
RestEntries ==
    { Entry("object", None, NullId, None, t, a, "ok") :
         t \in ToolNames \cup {UnknownTool}, a \in {"valid", "invalid"} }
    \cup { Entry("object", None, NullId, None, t, "valid", "throws") : t \in ToolNames }
    \cup { NullEntry }

Bodies(entries) == UNION { [1..n -> entries] : n \in 0..MaxBatch }

\* tool.handler(params, context): schema.parse(params) inside the handler throws a
\* ZodError on a violation; else the tool's work succeeds or throws.
toolHandler(entry) ==
    IF entry.args = "invalid" THEN "ZodError"
    ELSE IF entry.outcome = "throws" THEN "Error"
    ELSE "ok"

\* A JSON-RPC response object: its id, result or error, the error code (0 for a
\* result), whether the tool's handler was called to produce it, and the
\* exception whose message it carries.
RpcResponse(id, kind, code, handlerCalled) ==
    [id |-> id, kind |-> kind, code |-> code, handlerCalled |-> handlerCalled,
     tool |-> None, message |-> None]

createErrorResponse(id, code) == RpcResponse(id, "error", code, FALSE)

\* A response object that carries result and error together.
jsonMembersBoth(response) == {"jsonrpc", "id", "result", "error"}

\* The members of the JSON object written for a response: the success literal
\* {jsonrpc, id, result} or createErrorResponse's {jsonrpc, id, error}.
jsonMembers(response) ==
    IF response.kind = "error" THEN {"jsonrpc", "id", "error"}
    ELSE {"jsonrpc", "id", "result"}

\* handleJsonRpc without the test of the version tag.
handleJsonRpcAnyVersion(rpcRequest) ==
    IF rpcRequest.shape = "null"
    THEN [settled |-> "fulfilled",
          value |-> createErrorResponse(NullId, -32603)]
    ELSE [settled |-> "fulfilled",
          value |-> RpcResponse(rpcRequest.id, "result", 0,
                                rpcRequest.method = "tools/call")]

\* A settled promise.
Fulfilled(value) == [settled |-> "fulfilled", value |-> value]

Rejected == [settled |-> "rejected", value |-> createErrorResponse(NullId, 0)]

\* handleToolCall without its try/catch: the handler's exception rejects it.
handleToolCallUncaught(rpcRequest) ==
    IF rpcRequest.name = None \/ rpcRequest.name \notin ToolNames
    THEN Fulfilled(createErrorResponse(rpcRequest.id, -32602))
    ELSE IF toolHandler(rpcRequest) = "ok"
    THEN Fulfilled(RpcResponse(rpcRequest.id, "result", 0, TRUE))
    ELSE Rejected

\* HttpMcpProtocolHandler.handleToolCall(id, params): the promise it returns.
handleToolCallRpc(rpcRequest) ==
    IF rpcRequest.name = None \/ rpcRequest.name \notin ToolNames
    THEN Fulfilled(createErrorResponse(rpcRequest.id, -32602))
    ELSE IF toolHandler(rpcRequest) = "ok"
    THEN Fulfilled(RpcResponse(rpcRequest.id, "result", 0, TRUE))
    ELSE Fulfilled([RpcResponse(rpcRequest.id, "error", -32603, TRUE)
                      EXCEPT !.message = toolHandler(rpcRequest)])

\* handleJsonRpc without its try/catch: reading a null entry rejects.
handleJsonRpcUncaught(rpcRequest) ==
    IF rpcRequest.shape = "null" THEN Rejected
    ELSE IF rpcRequest.jsonrpc # "2.0"
    THEN Fulfilled(createErrorResponse(rpcRequest.id, -32600))
    ELSE IF rpcRequest.method = "tools/call" THEN handleToolCallRpc(rpcRequest)
    ELSE Fulfilled(RpcResponse(rpcRequest.id, "result", 0, FALSE))

\* HttpMcpProtocolHandler.handleJsonRpc(rpcRequest): the promise it returns.
handleJsonRpcRpc(rpcRequest) ==
    IF rpcRequest.shape = "null"
    THEN Fulfilled(createErrorResponse(NullId, -32603))
    ELSE IF rpcRequest.jsonrpc # "2.0"
    THEN Fulfilled(createErrorResponse(rpcRequest.id, -32600))
    ELSE IF rpcRequest.method = None
    THEN Fulfilled(createErrorResponse(rpcRequest.id, -32600))
    ELSE IF rpcRequest.method = "tools/list"
    THEN Fulfilled(RpcResponse(rpcRequest.id, "result", 0, FALSE))
    ELSE IF rpcRequest.method = "tools/call" THEN handleToolCallRpc(rpcRequest)
    ELSE Fulfilled(createErrorResponse(rpcRequest.id, -32601))

\* Promise.all: rejects if any promise rejects, else the values in order.
promiseAll(promises) ==
    IF \E i \in DOMAIN promises : promises[i].settled = "rejected"
    THEN [settled |-> "rejected", value |-> <<>>]
    ELSE [settled |-> "fulfilled",
          value |-> [i \in DOMAIN promises |-> promises[i].value]]

\* What was answered to a body: the status, the handler that answered, the
\* per-entry responses and the summary counts of a REST batch.
RpcExchange(kind, path, body, status, by, responses, total, successful, failed) ==
    [kind |-> kind, path |-> path, body |-> body, status |-> status, by |-> by,
     responses |-> responses,
     summary |-> [total |-> total, successful |-> successful, failed |-> failed]]

NoRpc == RpcExchange(None, None, <<>>, 0, None, <<>>, 0, 0, 0)

InitRpc == rpc = NoRpc

\* HttpMcpProtocolHandler.handleHttpRequest with an array body.
handleHttpRequest(body) ==
    LET all == promiseAll([i \in DOMAIN body |-> handleJsonRpcRpc(body[i])])
    IN  IF all.settled = "fulfilled"
        THEN RpcExchange("http-mcp", "/mcp", body, 200, "handleHttpRequest",
                         all.value, 0, 0, 0)
        ELSE RpcExchange("http-mcp", "/mcp", body, 500, "handleHttpRequest",
                         <<createErrorResponse(NullId, -32603)>>, 0, 0, 0)

\* POST /mcp with a single JSON-RPC object as body: validateRequest answers a
\* present jsonrpc other than '2.0' itself, with id `req.body.id || null`; else
\* handleHttpRequest answers with what handleJsonRpc returns.
postMcp(rpcRequest) ==
    IF validateRequest([method |-> "POST", path |-> "/mcp",
                        jsonrpc |-> rpcRequest.jsonrpc]) # 0
    THEN RpcExchange("http-mcp", "/mcp", <<rpcRequest>>, 400, "validateRequest",
                     <<createErrorResponse(idOrNull(rpcRequest.id), -32600)>>, 0, 0, 0)
    ELSE RpcExchange("http-mcp", "/mcp", <<rpcRequest>>, 200, "handleJsonRpc",
                     <<handleJsonRpcRpc(rpcRequest).value>>, 0, 0, 0)

\* The failure kind a JSON-RPC error code stands for: the message the adapters
\* pair it with ('Invalid Request', 'Method not found', 'Invalid params',
\* 'Internal error').
jsonRpcFailureKind(code) ==
    CASE code = -32600 -> "InvalidRequest"
      [] code = -32601 -> "MethodNotFound"
      [] code = -32602 -> "InvalidParams"
      [] code = -32603 -> "ToolExecutionFailed"
      [] OTHER -> None

\* The failure kind a REST status stands for in handleToolExecution.
restFailureKind(statusCode) ==
    CASE statusCode = 404 -> "UnknownTool"
      [] statusCode = 400 -> "InvalidParams"
      [] statusCode = 500 -> "ToolExecutionFailed"
      [] OTHER -> None

\* RestApiProtocolHandler.handleToolRequest(toolName, params): the promise it
\* returns, the kind of error it rejects with, and whether the handler was called.
handleToolRequestRest(toolName, params) ==
    IF toolName \notin ToolNames
    THEN [settled |-> "rejected", error |-> "not found", handlerCalled |-> FALSE]
    ELSE IF toolHandler(params) = "ok"
    THEN [settled |-> "fulfilled", error |-> None, handlerCalled |-> TRUE]
    ELSE [settled |-> "rejected", error |-> toolHandler(params), handlerCalled |-> TRUE]

\* One entry of the REST batch array: {tool, result | error, status}.
BatchItem(tool, result) ==
    [RpcResponse(NullId, result.settled, 0, result.handlerCalled)
        EXCEPT !.tool = tool, !.message = result.error]

\* RestApiProtocolHandler.handleToolExecution for POST /tools/<toolName>; text is
\* what the message of the exception the handler threw contains. The message of
\* handleToolRequest's own error is 'Tool not found: <toolName>'.
restToolExecution(toolName, params, body, text) ==
    LET result == handleToolRequestRest(toolName, params)
        message == IF result.error = "not found" THEN "includes 'not found'" ELSE text
        statusCode == IF result.settled = "fulfilled" THEN 200
                      ELSE IF message = "includes 'not found'" THEN 404
                      ELSE IF message = "includes 'Invalid'" THEN 400
                      ELSE 500
    IN  RpcExchange("rest", toolName, body, statusCode, "handleToolExecution",
                    <<BatchItem(toolName, result)>>, 0, 0, 0)

\* RestApiProtocolHandler.handleBatchExecution with body {requests}.
handleBatchExecution(requests, isArray) ==
    LET results == [i \in DOMAIN requests |->
                      IF requests[i].shape = "null"
                      THEN [settled |-> "rejected", error |-> "TypeError",
                            handlerCalled |-> FALSE]
                      ELSE handleToolRequestRest(requests[i].name, requests[i])]
        response == [i \in DOMAIN requests |->
                       BatchItem(requests[i].name, results[i])]
        count(status) == Cardinality({i \in DOMAIN response : response[i].kind = status})
    IN  IF ~isArray
        THEN RpcExchange("rest", "batch", requests, 400, "handleBatchExecution",
                         <<>>, 0, 0, 0)
        ELSE IF \E i \in DOMAIN requests : requests[i].shape = "null"
        THEN RpcExchange("rest", "batch", requests, 500, "handleBatchExecution",
                         <<>>, 0, 0, 0)
        ELSE RpcExchange("rest", "batch", requests, 200, "handleBatchExecution",
                         response, Len(requests), count("fulfilled"), count("rejected"))

\* The POST routes under /tools in the order setupRoutes registers them.
restPostRoutes ==
    <<[path |-> "/tools/:toolName", handler |-> "handleToolExecution"],
      [path |-> "/tools/batch", handler |-> "handleBatchExecution"]>>

\* Express path matching: a parameter segment matches any one segment.
routeMatches(layer, segment) ==
    \/ layer.path = "/tools/:toolName"
    \/ layer.path = "/tools/batch" /\ segment = "batch"

\* The router runs the first registered route that matches; the handlers end the
\* response without calling next().
restRoute(segment) ==
    LET first == CHOOSE i \in DOMAIN restPostRoutes :
                    /\ routeMatches(restPostRoutes[i], segment)
                    /\ \A j \in 1..(i - 1) : ~routeMatches(restPostRoutes[j], segment)
    IN  restPostRoutes[first].handler

\* POST /api/tools/<segment> once the middleware stack has passed it on.
restPost(segment, params, requests, isArray, text) ==
    IF restRoute(segment) = "handleToolExecution"
    THEN restToolExecution(segment, params, requests, text)
    ELSE handleBatchExecution(requests, isArray)

-----------------------------------------------------------------------------
(* middleware/auth: permission gates                                       *)

\* What a gate did: 403 with the permissions its body names, or next().
GateResult(status, named) == [status |-> status, named |-> named]

GateNext == GateResult(0, {})

\* AuthMiddleware.requirePermission(permission) on req.permissions
requirePermission(permission, permissions) ==
    IF permission \notin permissions
    THEN GateResult(403, {permission})
    ELSE GateNext

\* AuthMiddleware.requirePermissions(permissions) on req.permissions
requirePermissions(required, permissions) ==
    LET missingPermissions == required \ permissions
    IN  IF missingPermissions # {}
        THEN GateResult(403, missingPermissions)
        ELSE GateNext

\* A requireAnyPermission that asks for every permission.
requireAnyPermissionAll(required, permissions) ==
    IF required \subseteq permissions THEN GateNext ELSE GateResult(403, required)

\* AuthMiddleware.requireAnyPermission(permissions) on req.permissions
requireAnyPermission(required, permissions) ==
    LET hasAnyPermission == \E perm \in required : perm \in permissions
    IN  IF ~hasAnyPermission
        THEN GateResult(403, required)
        ELSE GateNext

\* A route mounted as (gate, handler), as GET /admin/stats is: the gate's answer,
\* or the handler's once the gate called next().
GatedRoute(name, required, permissions, result) ==
    [gate |-> name, required |-> required, permissions |-> permissions,
     status |-> IF result = GateNext THEN 200 ELSE result.status,
     named |-> result.named,
     handlerRan |-> result = GateNext]

NoGate == GatedRoute(None, {}, {}, GateResult(0, {"none"}))

InitGate == gate = NoGate

-----------------------------------------------------------------------------
(* tools/tool-registry: the catalog cache                                   *)

MaxCallers == 4

\* The calls of getUniversalTools in flight at once: the items of a batch, the
\* handlers of the adapters.
Callers == 1..MaxCallers

\* The array one run of initializeTools returns: the registered tools in the
\* order of the literal; `run` tells one array object from another.
initializeTools(run) ==
    [run |-> run,
     tools |-> <<"get_top_crypto_news", "search_crypto_news", "get_market_impact_news",
                 "analyze_news_credibility", "get_news_by_source">>]

\* null, where an array is expected.
NoArray == [run |-> 0, tools |-> <<>>]

\* `let toolsCache = null` at module load, no call made yet. `awaiting` holds, in
\* order, the callers suspended at `await initializeTools()` and `promised` the
\* array each of them awaits; `returned` is what a caller's call resolved to.
NoReg ==
    [toolsCache |-> NoArray, inits |-> 0, awaiting |-> <<>>,
     promised |-> [c \in Callers |-> NoArray], returned |-> [c \in Callers |-> NoArray]]

NoSrv == None
NoTmo == None

InitProc ==
    /\ reg = NoReg
    /\ srv = NoSrv
    /\ tmo = NoTmo

-----------------------------------------------------------------------------
(* State machine                                                           *)

NoExchange ==
    [kind |-> None, req |-> Request(None, None, [apiKey |-> None, token |-> None],
                                    None, None, None),
     store |-> initializeDefaultApiKeys,
     resp |-> Response(0, None, NoAuth, None, None, 0),
     steps |-> <<>>]

Exchange(kind, req, resp) ==
    [kind |-> kind, req |-> req, store |-> apiKeys, resp |-> resp, steps |-> <<>>]

InitWebSocket ==
    /\ sockets = <<>>
    /\ wsCalls = <<>>
    /\ sent = <<>>
    /\ heartbeats = 0

InitSliding ==
    /\ swConfig = [windowMs |-> 2000, maxRequests |-> 2]
    /\ windows = <<>>
    /\ now = 0
    /\ slog = <<>>

Init ==
    /\ apiKeys = initializeDefaultApiKeys
    /\ authEnabled \in BOOLEAN
    /\ wsAuthSet = FALSE
    /\ client \in Clients
    /\ limits = [l \in Limiters |-> TightMax]
    /\ hits = [l \in Limiters |-> [k \in LimiterKeys |-> 0]]
    /\ connections = <<>>
    /\ invoked = [t \in ToolNames |-> 0]
    /\ last = NoExchange
    /\ InitSliding
    /\ InitWebSocket
    /\ InitRpc
    /\ InitGate
    /\ InitProc

\* One HTTP request through the Express stack.
HttpRequest(req) ==
    /\ \A l \in Limiters : hits[l][keyGenerator(req)] <= limits[l]
    /\ \A t \in ToolNames : invoked[t] <= ToolMax
    /\ LET out == pipeline(req, apiKeys, authEnabled, limits, hits)
       IN  /\ hits' = out.hits
           /\ last' = [Exchange("http", req, out.resp) EXCEPT !.steps = out.steps]
           /\ invoked' = IF out.resp.handler # None
                         THEN [invoked EXCEPT ![out.resp.handler] = @ + 1]
                         ELSE invoked
    /\ UNCHANGED <<procVars, rpcVars, gateVars, apiKeys, authEnabled, wsAuthSet, client, limits, connections,
                   slidingVars, wsVars>>

\* A limiter's window for a key runs out and its count starts again.
ResetWindow(limiter, key) ==
    /\ hits[limiter][key] > 0
    /\ hits' = [hits EXCEPT ![limiter][key] = 0]
    /\ UNCHANGED <<procVars, rpcVars, gateVars, apiKeys, authEnabled, wsAuthSet, client, limits, connections, invoked, last,
                   slidingVars, wsVars>>

\* Sixty seconds pass since the first invocation counted in `invoked`.
ToolWindowElapses ==
    /\ \E t \in ToolNames : invoked[t] > 0
    /\ invoked' = [t \in ToolNames |-> 0]
    /\ UNCHANGED <<procVars, rpcVars, gateVars, apiKeys, authEnabled, wsAuthSet, client, limits, hits, connections, last,
                   slidingVars, wsVars>>

\* AuthMiddleware.revokeApiKey(keyId)
RevokeApiKey(keyId) ==
    /\ apiKeys' = revokeApiKey(keyId, apiKeys)
    /\ UNCHANGED <<procVars, rpcVars, gateVars, authEnabled, wsAuthSet, client, limits, hits, connections, invoked, last,
                   slidingVars, wsVars>>

\* WebSocketMcpProtocolHandler.setAuthMiddleware
SetAuthMiddleware ==
    /\ wsAuthSet' = TRUE
    /\ UNCHANGED <<procVars, rpcVars, gateVars, apiKeys, authEnabled, client, limits, hits, connections, invoked, last,
                   slidingVars, wsVars>>

\* WebSocketMcpProtocolHandler.handleConnection
HandleConnection ==
    /\ Len(sockets) < MaxConnections
    /\ LET req == ConnectRequest(client)
       IN  IF ~authenticateConnection(req, wsAuthSet)
           THEN /\ last' = Exchange("ws", req,
                                    Response(1008, "handleConnection", NoAuth, None, None, 0))
                /\ UNCHANGED <<connections, sockets, sent>>
           ELSE LET perms == getConnectionPermissions(req, wsAuthSet)
                    socks == Append(sockets, Socket("OPEN", None, 0, 0))
                IN  /\ connections' = connections @@
                           (NewConnectionId :>
                               [isAlive |-> TRUE, subscriptions |-> <<>>,
                                authenticated |-> TRUE, permissions |-> perms])
                    /\ sockets' = socks
                    /\ sent' = sendMessage(Append(sent, <<>>), socks, NewConnectionId,
                                           WsMessage("welcome", 0, 0, 0))
                    /\ last' = Exchange("ws", req,
                                        Response(101, "handleConnection",
                                                 AuthState(perms, None, None),
                                                 None, None, 0))
    /\ UNCHANGED <<procVars, rpcVars, gateVars, apiKeys, authEnabled, wsAuthSet, client, limits, hits, invoked,
                   slidingVars, wsCalls, heartbeats>>

\* ws.on('close'): the socket has closed.
ConnectionClosed(id) ==
    /\ id \in DOMAIN sockets
    /\ sockets[id].readyState # "CLOSED"
    /\ sockets' = closeSocket(sockets, sent, id, "CLOSED", "close")
    /\ connections' = deleteConnection(connections, id)
    /\ UNCHANGED <<procVars, rpcVars, gateVars, apiKeys, authEnabled, wsAuthSet, client, limits, hits, invoked, last,
                   slidingVars, wsCalls, sent, heartbeats>>

Next ==
    \/ \E req \in ClientRequests(client) : HttpRequest(req)
    \/ \E keyId \in DOMAIN apiKeys : RevokeApiKey(keyId)
    \/ SetAuthMiddleware
    \/ HandleConnection
    \/ \E id \in 1..MaxConnections : ConnectionClosed(id)

Spec == Init /\ [][Next]_vars

-----------------------------------------------------------------------------
(* The limiters under load: one client, authenticated or anonymous          *)

RateClients == {[apiKey |-> None, token |-> None], [apiKey |-> AdminSecret, token |-> None]}

InitRate ==
    /\ apiKeys = initializeDefaultApiKeys
    /\ authEnabled = TRUE
    /\ wsAuthSet = FALSE
    /\ client \in RateClients
    /\ limits = LimiterMax
    /\ hits = [l \in Limiters |-> [k \in LimiterKeys |-> 0]]
    /\ connections = <<>>
    /\ invoked = [t \in ToolNames |-> 0]
    /\ last = NoExchange
    /\ InitSliding
    /\ InitWebSocket
    /\ InitRpc
    /\ InitGate
    /\ InitProc

NextRate ==
    \/ \E req \in ClientRequests(client) : HttpRequest(req)
    \/ \E l \in Limiters, k \in LimiterKeys : ResetWindow(l, k)
    \/ ToolWindowElapses

SpecRate == InitRate /\ [][NextRate]_vars

-----------------------------------------------------------------------------
(* middleware/rate-limit: getSlidingWindowRateLimit                        *)

\* The (windowMs, maxRequests) pairs a limiter is constructed with.
SlidingConfigs ==
    { [windowMs |-> 2000, maxRequests |-> 2], [windowMs |-> 1000, maxRequests |-> 1] }

\* The x-api-key header or address of the clients of the limiter.
SlidingKeys == {"key-a", "key-b"}

\* Milliseconds by which the clock advances between two events.
ClockSteps == {500}

MaxNow == 3000
MaxSlidingRequests == 4

\* The filter keeping a timestamp that lies exactly on windowStart.
activeRequestsClosed(requests, windowStart) == SelectSeq(requests, LAMBDA t : t >= windowStart)

\* requests.filter(timestamp => timestamp > windowStart)
activeRequests(requests, windowStart) == SelectSeq(requests, LAMBDA t : t > windowStart)

\* Math.min(...requests)
oldestRequest(requests) ==
    CHOOSE t \in {requests[i] : i \in DOMAIN requests} :
        \A i \in DOMAIN requests : t <= requests[i]

\* Math.floor(ms / 1000) for the ms >= 0 the limiter computes.
floorSeconds(ms) == ms \div 1000

\* Math.ceil(ms / 1000)
ceilSeconds(ms) ==
    IF ms >= 0 THEN (ms + 999) \div 1000 ELSE -((-ms) \div 1000)

\* windows.get(key) || []
storedRequests(w, key) == IF key \in DOMAIN w THEN w[key] ELSE <<>>

\* The middleware rejecting only once the window holds more than maxRequests.
slidingWindowOneMore(w, cfg, key, t) ==
    LET requests == activeRequests(storedRequests(w, key), t - cfg.windowMs)
    IN  IF Len(requests) > cfg.maxRequests
        THEN [status |-> 429,
              retryAfter |-> ceilSeconds(oldestRequest(requests) + cfg.windowMs - t),
              remaining |-> 0,
              windows |-> w]
        ELSE [status |-> 0,
              retryAfter |-> 0,
              remaining |-> cfg.maxRequests - (Len(requests) + 1),
              windows |-> [k \in DOMAIN w \cup {key} |->
                              IF k = key THEN Append(requests, t) ELSE w[k]]]

\* The middleware getSlidingWindowRateLimit returns, for one request of `key` at
\* time t: the status (0 when next() is called), the retryAfter it reports and
\* the windows map after the request.
slidingWindow(w, cfg, key, t) ==
    LET requests == activeRequests(storedRequests(w, key), t - cfg.windowMs)
    IN  IF Len(requests) >= cfg.maxRequests
        THEN [status |-> 429,
              retryAfter |-> ceilSeconds(oldestRequest(requests) + cfg.windowMs - t),
              remaining |-> 0,
              windows |-> w]
        ELSE [status |-> 0,
              retryAfter |-> 0,
              remaining |-> cfg.maxRequests - (Len(requests) + 1),
              windows |-> [k \in DOMAIN w \cup {key} |->
                              IF k = key THEN Append(requests, t) ELSE w[k]]]

InitSlidingWindow ==
    /\ apiKeys = initializeDefaultApiKeys
    /\ authEnabled = TRUE
    /\ wsAuthSet = FALSE
    /\ client = [apiKey |-> None, token |-> None]
    /\ limits = LimiterMax
    /\ hits = [l \in Limiters |-> [k \in LimiterKeys |-> 0]]
    /\ connections = <<>>
    /\ invoked = [t \in ToolNames |-> 0]
    /\ last = NoExchange
    /\ swConfig \in SlidingConfigs
    /\ windows = <<>>
    /\ now = 0
    /\ slog = <<>>
    /\ InitWebSocket
    /\ InitRpc
    /\ InitGate
    /\ InitProc

\* One request of `key` reaches the sliding-window middleware.
SlidingRequest(key) ==
    /\ Len(slog) < MaxSlidingRequests
    /\ LET out == slidingWindow(windows, swConfig, key, now)
       IN  /\ windows' = out.windows
           /\ slog' = Append(slog, [key |-> key, time |-> now, status |-> out.status,
                                    retryAfter |-> out.retryAfter])
    /\ UNCHANGED <<procVars, rpcVars, gateVars, httpVars, wsVars, swConfig, now>>

\* Time passes.
ClockAdvances ==
    /\ \E d \in ClockSteps :
         /\ now + d <= MaxNow
         /\ now' = now + d
    /\ UNCHANGED <<procVars, rpcVars, gateVars, httpVars, wsVars, swConfig, windows, slog>>

NextSlidingWindow ==
    \/ \E key \in SlidingKeys : SlidingRequest(key)
    \/ ClockAdvances

SpecSlidingWindow == InitSlidingWindow /\ [][NextSlidingWindow]_vars

-----------------------------------------------------------------------------
(* protocols/websocket-mcp: messages, streaming and heartbeat               *)

\* The progress updates of one streaming call, scaled down from 5
\* (for (let i = 1; i <= 5; i++)).
StreamStages == 2

MaxInbound == 2
MaxHeartbeats == 2
MaxBroadcasts == 1

\* The messages a client sends over an open connection: tool calls and streaming
\* calls for a registered and for an unregistered name, and an application ping.
WsInbound ==
    { [type |-> "mcp-request", method |-> m, name |-> t] :
         m \in {"tools/call", "tools/stream"}, t \in ToolNames \cup {UnknownTool} }
    \cup { [type |-> "ping", method |-> None, name |-> None] }

\* A streaming handler that calls the tool before it sends the progress updates.
streamingPlanResultFirst(name) ==
    IF name = "get_top_crypto_news"
    THEN <<"toolCall">> \o [i \in 1..StreamStages |-> "progress"]
    ELSE <<>>

\* handleStreamingToolCall after its 'started' message: the steps it awaits in
\* turn, a timer before each progress update and then handleToolCall.
streamingPlan(name) ==
    IF name = "get_top_crypto_news"
    THEN [i \in 1..StreamStages |-> "progress"] \o <<"toolCall">>
    ELSE <<>>

\* What handleMcpRequest leaves pending for a request: the streaming steps, or
\* the handler of a registered tool (handleToolCall answers an unknown name at once).
callPlan(msg) ==
    CASE msg.method = "tools/stream" -> streamingPlan(msg.name)
      [] msg.method = "tools/call" /\ msg.name \in ToolNames -> <<"toolCall">>
      [] OTHER -> <<>>

\* What handleMessage sends before any await: 'started' for a streaming call, the
\* error of handleToolCall for an unknown tool, a pong for a ping.
firstReply(msg, call) ==
    CASE msg.type = "ping" -> <<WsMessage("pong", 0, 0, 0)>>
      [] msg.method = "tools/stream" -> <<WsMessage("started", call, 0, 0)>>
      [] msg.method = "tools/call" /\ msg.name \notin ToolNames ->
            <<WsMessage("error", call, -32602, 0)>>
      [] OTHER -> <<>>

\* ws.on('message'): handleMessage up to its first await on a timer or a handler.
ReceiveMessage(id, msg) ==
    /\ id \in DOMAIN connections
    /\ sockets[id].readyState = "OPEN"
    /\ Len(wsCalls) < MaxInbound
    /\ LET call == Len(wsCalls) + 1
           reply == firstReply(msg, call)
       IN  /\ wsCalls' = Append(wsCalls, [conn |-> id, type |-> msg.type,
                                          method |-> msg.method, name |-> msg.name,
                                          plan |-> callPlan(msg), progress |-> 0])
           /\ sent' = IF reply = <<>> THEN sent
                      ELSE sendMessage(sent, sockets, id, reply[1])
    /\ UNCHANGED <<procVars, rpcVars, gateVars, httpVars, slidingVars, sockets, heartbeats>>

\* The 500 ms timer of a streaming call fires: the next progress update is sent.
StreamTimerFires(call) ==
    /\ call \in DOMAIN wsCalls
    /\ wsCalls[call].plan # <<>>
    /\ Head(wsCalls[call].plan) = "progress"
    /\ sent' = sendMessage(sent, sockets, wsCalls[call].conn,
                           WsMessage("progress", call, 0, wsCalls[call].progress + 1))
    /\ wsCalls' = [wsCalls EXCEPT ![call].plan = Tail(@), ![call].progress = @ + 1]
    /\ UNCHANGED <<procVars, rpcVars, gateVars, httpVars, slidingVars, sockets, heartbeats>>

\* tool.handler settles: handleToolCall sends the result, or the error it caught.
HandlerCompletes(call, ok) ==
    /\ call \in DOMAIN wsCalls
    /\ wsCalls[call].plan # <<>>
    /\ Head(wsCalls[call].plan) = "toolCall"
    /\ sent' = sendMessage(sent, sockets, wsCalls[call].conn,
                           IF ok THEN WsMessage("result", call, 0, 0)
                           ELSE WsMessage("error", call, -32603, 0))
    /\ wsCalls' = [wsCalls EXCEPT ![call].plan = Tail(@)]
    /\ UNCHANGED <<procVars, rpcVars, gateVars, httpVars, slidingVars, sockets, heartbeats>>

\* A heartbeat that pings every connection and terminates none.
heartbeatNoEviction(conns, socks, log) ==
    [connections |-> [id \in DOMAIN conns |-> [conns[id] EXCEPT !.isAlive = FALSE]],
     sockets |-> [id \in DOMAIN socks |->
                     IF id \in DOMAIN conns
                     THEN [socks[id] EXCEPT !.cycles = @ + 1]
                     ELSE socks[id]]]

\* The setInterval callback of startHeartbeat, over all connections: one that is
\* not alive is terminated and deleted, the others are marked not alive and pinged.
heartbeat(conns, socks, log) ==
    LET dead == {id \in DOMAIN conns : ~conns[id].isAlive}
    IN  [connections |-> [id \in DOMAIN conns \ dead |->
                             [conns[id] EXCEPT !.isAlive = FALSE]],
         sockets |-> [id \in DOMAIN socks |->
                         IF id \in dead
                         THEN closeSocket(socks, log, id, "CLOSING", "heartbeat")[id]
                         ELSE IF id \in DOMAIN conns
                         THEN [socks[id] EXCEPT !.cycles = @ + 1]
                         ELSE socks[id]]]

\* The heartbeat interval (30 s) elapses; with no connection the callback does
\* nothing, and such runs are not counted.
Heartbeat ==
    /\ DOMAIN connections # {}
    /\ heartbeats < MaxHeartbeats
    /\ heartbeats' = heartbeats + 1
    /\ LET out == heartbeat(connections, sockets, sent)
       IN  /\ connections' = out.connections
           /\ sockets' = out.sockets
    /\ UNCHANGED <<procVars, rpcVars, gateVars, apiKeys, authEnabled, wsAuthSet, client, limits, hits, invoked, last,
                   slidingVars, wsCalls, sent>>

\* ws.on('pong'): the client answered the ping.
Pong(id) ==
    /\ id \in DOMAIN connections
    /\ sockets[id].readyState = "OPEN"
    /\ ~connections[id].isAlive
    /\ connections' = [connections EXCEPT ![id].isAlive = TRUE]
    /\ sockets' = [sockets EXCEPT ![id].cycles = 0]
    /\ UNCHANGED <<procVars, rpcVars, gateVars, apiKeys, authEnabled, wsAuthSet, client, limits, hits, invoked, last,
                   slidingVars, wsCalls, sent, heartbeats>>

\* ws.on('error'): the socket failed; the ws library has left OPEN already.
ConnectionError(id) ==
    /\ id \in DOMAIN connections
    /\ sockets[id].readyState = "OPEN"
    /\ sockets' = closeSocket(sockets, sent, id, "CLOSING", "error")
    /\ connections' = deleteConnection(connections, id)
    /\ UNCHANGED <<procVars, rpcVars, gateVars, apiKeys, authEnabled, wsAuthSet, client, limits, hits, invoked, last,
                   slidingVars, wsCalls, sent, heartbeats>>

\* The broadcasts written to connection id so far.
broadcastsTo(id) == Cardinality({i \in DOMAIN sent[id] : sent[id][i].type = "broadcast"})

\* WebSocketMcpProtocolHandler.broadcast: to every connection of the map whose
\* socket is OPEN.
broadcast(conns, socks, log) ==
    [id \in DOMAIN log |->
        IF id \in DOMAIN conns /\ socks[id].readyState = "OPEN"
        THEN Append(log[id], WsMessage("broadcast", 0, 0, 0))
        ELSE log[id]]

Broadcast ==
    /\ DOMAIN sent # {}
    /\ \A id \in DOMAIN sent : broadcastsTo(id) < MaxBroadcasts
    /\ sent' = broadcast(connections, sockets, sent)
    /\ UNCHANGED <<procVars, rpcVars, gateVars, httpVars, slidingVars, sockets, wsCalls, heartbeats>>

InitWs ==
    /\ apiKeys = initializeDefaultApiKeys
    /\ authEnabled = TRUE
    /\ wsAuthSet = FALSE
    /\ client = [apiKey |-> None, token |-> None]
    /\ limits = LimiterMax
    /\ hits = [l \in Limiters |-> [k \in LimiterKeys |-> 0]]
    /\ connections = <<>>
    /\ invoked = [t \in ToolNames |-> 0]
    /\ last = NoExchange
    /\ InitSliding
    /\ InitWebSocket
    /\ InitRpc
    /\ InitGate
    /\ InitProc

NextWs ==
    \/ HandleConnection
    \/ \E id \in 1..MaxConnections, msg \in WsInbound : ReceiveMessage(id, msg)
    \/ \E call \in 1..MaxInbound : StreamTimerFires(call)
    \/ \E call \in 1..MaxInbound, ok \in BOOLEAN : HandlerCompletes(call, ok)
    \/ Heartbeat
    \/ \E id \in 1..MaxConnections : Pong(id)
    \/ \E id \in 1..MaxConnections : ConnectionError(id)
    \/ \E id \in 1..MaxConnections : ConnectionClosed(id)
    \/ Broadcast

SpecWs == InitWs /\ [][NextWs]_vars

-----------------------------------------------------------------------------
(* Properties of the authentication and permission layer                   *)

\* Neither the API key nor the bearer token of the request resolves against the
\* credential store and the signing secret.
Unverified(req, store) ==
    /\ req.apiKey = None \/ verifyApiKey(req.apiKey, store) = None
    /\ ~jwtVerify(req.token, JwtSecret)

\* The request presents an API key whose record is inactive, and no valid token.
PresentsRevoked(req, store) ==
    /\ req.apiKey # None
    /\ \E keyId \in DOMAIN store :
         compareSync(req.apiKey, store[keyId].key) /\ ~store[keyId].active
    /\ ~jwtVerify(req.token, JwtSecret)

\* The exchange invoked a registered tool through an HTTP adapter.
ToolInvocation(x) ==
    /\ x.kind = "http"
    /\ x.resp.by \in {"rest-api", "http-mcp"}
    /\ x.req.tool \in ToolNames
    /\ x.req.path = "/mcp" => x.req.jsonrpc = "2.0" /\ x.req.rpcMethod = "tools/call"

\* C1: with authentication enabled, a tool invoked by a caller whose permission set
\* lacks a permission the tool requires fails with Forbidden (403, or a JSON-RPC
\* error) and the tool's handler is not called.
C1_ForbiddenWithoutPermissions ==
    (/\ authEnabled
     /\ ToolInvocation(last)
     /\ ~(ToolPermissions(last.req.tool) \subseteq last.resp.permissions))
        => /\ last.resp.handler = None
           /\ last.resp.status = 403 \/ last.resp.code # 0

\* C2: with authentication enabled, an authentication attempt that presents a
\* revoked credential fails on every adapter: login answers 401, required auth
\* answers 401, optional auth attaches no credential, and a WebSocket connect is
\* closed.
C2_RevokedCredentialFails ==
    (authEnabled /\ last.kind # None /\ PresentsRevoked(last.req, last.store))
        => CASE last.kind = "ws" -> last.resp.status = 1008
             [] last.req.path = "/auth/login" -> last.resp.status \in {401, 429}
             [] last.req.path = "/mcp" -> last.resp.status \in {400, 401, 429}
             [] OTHER -> last.resp.apiKey = None

C4_RestRequiresCredential ==
    (/\ last.kind = "http"
     /\ last.req.path = "/api/tools/:toolName"
     /\ authEnabled
     /\ Unverified(last.req, last.store))
        => /\ last.resp.handler = None
           /\ last.resp.status \in {401, 429}

\* C5: with authentication enabled, a WebSocket connect whose credentials do not
\* resolve is closed with 1008 and adds no connection.
C5_WebSocketRejectsUnresolved ==
    (/\ last.kind = "ws"
     /\ authEnabled
     /\ Unverified(last.req, last.store))
        => last.resp.status = 1008

\* C6: with authentication enabled, a caller whose presented credentials do not
\* verify is attached no more than the default read-only permission set.
C6_PermissionsOnlyFromVerified ==
    (/\ last.kind # None
     /\ authEnabled
     /\ last.req.apiKey # None \/ last.req.token # None
     /\ Unverified(last.req, last.store))
        => last.resp.permissions \subseteq ReadOnly

\* The middleware that resolve the caller, that limit the rate, and that validate
\* the JSON-RPC envelope.
AuthSteps == {"optionalAuth", "requireAuth"}
RateSteps == {"getGlobalRateLimit", "getApiRateLimit", "getProtocolRateLimit"}
EnvelopeSteps == {"validateRequest"}

\* C11: for every HTTP request that reaches a tool handler, a rate limiter runs only
\* after the caller was authenticated, and the envelope is validated only after
\* both.
C11_AuthenticateThenLimitThenValidate ==
    (last.kind = "http" /\ last.resp.handler # None)
        => \A i \in DOMAIN last.steps :
              /\ last.steps[i] \in RateSteps
                    => \E a \in 1..(i - 1) : last.steps[a] \in AuthSteps
              /\ last.steps[i] \in EnvelopeSteps
                    => /\ \E a \in 1..(i - 1) : last.steps[a] \in AuthSteps
                       /\ \E r \in 1..(i - 1) : last.steps[r] \in RateSteps

-----------------------------------------------------------------------------
(* Properties of the rate limiters                                          *)

\* C9: no more than ToolMax invocations of one tool by one key reach the tool's
\* handler within the tool-specific window.
C9_ToolLimiterRejectsThird ==
    \A t \in ToolNames : invoked[t] <= ToolMax

\* C10: a health-check request is never answered 429.
C10_HealthCheckNeverLimited ==
    (last.kind = "http" /\ healthCheckBypass(last.req)) => last.resp.status # 429

-----------------------------------------------------------------------------
(* Properties of the sliding-window limiter                                 *)

\* The positions in slog of the requests of `key`, and of those accepted.
RequestsOf(key) == {i \in DOMAIN slog : slog[i].key = key}
AcceptedOf(key) == {i \in RequestsOf(key) : slog[i].status = 0}

\* The times of the accepted requests of `key` later than `from`, in order.
AcceptedTimesAfter(key, from) ==
    LET kept == SelectSeq(slog, LAMBDA e : e.key = key /\ e.status = 0 /\ e.time > from)
    IN  [i \in DOMAIN kept |-> kept[i].time]

\* The time of the last accepted request of `key`.
LastAccepted(key) ==
    CHOOSE t \in {slog[i].time : i \in AcceptedOf(key)} :
        \A i \in AcceptedOf(key) : slog[i].time <= t

\* C7: for every key, no more than maxRequests accepted requests have a timestamp
\* t with now - windowMs < t <= now, and rejected requests are not recorded: the
\* stored window of a key holds the accepted timestamps within windowMs of the
\* last accepted one and nothing else.
C7_HalfOpenWindowBound ==
    \A key \in SlidingKeys :
        /\ Cardinality({i \in AcceptedOf(key) :
                           now - swConfig.windowMs < slog[i].time /\ slog[i].time <= now})
               <= swConfig.maxRequests
        /\ IF AcceptedOf(key) = {}
           THEN key \notin DOMAIN windows
           ELSE /\ key \in DOMAIN windows
                /\ windows[key] =
                       AcceptedTimesAfter(key, LastAccepted(key) - swConfig.windowMs)

\* Two requests of a key accepted exactly windowMs apart, then one rejected.
C7_Witness ==
    \E key \in SlidingKeys : \E i, j, k \in RequestsOf(key) :
        /\ i < j /\ j < k
        /\ slog[i].status = 0
        /\ slog[j].status = 0
        /\ slog[j].time = slog[i].time + swConfig.windowMs
        /\ slog[k].status = 429
        /\ windows[key] = <<slog[j].time>>

\* C7 as stated, over the closed interval: no more than maxRequests accepted
\* requests have a timestamp t with now - windowMs <= t <= now.
C7_ClosedWindowBound ==
    \A key \in SlidingKeys :
        Cardinality({i \in AcceptedOf(key) :
                        now - swConfig.windowMs <= slog[i].time /\ slog[i].time <= now})
            <= swConfig.maxRequests

\* The window of `key` is empty when request i arrives: no accepted request of
\* the key is less than windowMs old.
ArrivesAtEmptyWindow(key, i) ==
    \A h \in AcceptedOf(key) : h < i => slog[h].time <= slog[i].time - swConfig.windowMs

\* C8: of the requests a key issues within windowMs of one that arrived at an empty
\* window, the first maxRequests are accepted and every later one is rejected
\* with 429.
C8_FirstNAcceptedNextRejected ==
    \A key \in SlidingKeys : \A a \in RequestsOf(key) :
        ArrivesAtEmptyWindow(key, a) =>
            \A j \in RequestsOf(key) :
                (j >= a /\ slog[j].time < slog[a].time + swConfig.windowMs) =>
                    LET nth == Cardinality({h \in RequestsOf(key) : a <= h /\ h <= j})
                    IN  IF nth <= swConfig.maxRequests
                        THEN slog[j].status = 0
                        ELSE slog[j].status = 429

\* With maxRequests = 2: two requests accepted and a third, within the same window
\* but later than both, rejected.
C8_Witness ==
    /\ swConfig.maxRequests = 2
    /\ \E key \in SlidingKeys :
         /\ Cardinality(RequestsOf(key)) = 3
         /\ Cardinality(AcceptedOf(key)) = 2
         /\ \E j \in RequestsOf(key) :
              /\ slog[j].status = 429
              /\ \A h \in AcceptedOf(key) :
                    h < j /\ slog[h].time < slog[j].time
                          /\ slog[j].time < slog[h].time + swConfig.windowMs

-----------------------------------------------------------------------------
(* Properties of the WebSocket adapter                                      *)

\* Timers fire and handlers settle.
SpecWsFair ==
    /\ SpecWs
    /\ \A call \in 1..MaxInbound :
          /\ WF_vars(StreamTimerFires(call))
          /\ WF_vars(\E ok \in BOOLEAN : HandlerCompletes(call, ok))

\* Timers fire; a handler may never settle.
SpecWsTimers ==
    /\ SpecWs
    /\ \A call \in 1..MaxInbound : WF_vars(StreamTimerFires(call))

\* C12: a connection is alive exactly when no heartbeat ran since its last pong; a
\* live connection has gone through at most one heartbeat without answering, and
\* a connection the heartbeat terminated was removed after exactly one.
C12_EvictedAfterOneMissedCycle ==
    \A id \in DOMAIN sockets :
        /\ id \in DOMAIN connections
              => /\ sockets[id].cycles <= 1
                 /\ connections[id].isAlive <=> sockets[id].cycles = 0
        /\ sockets[id].closedBy = "heartbeat"
              => /\ sockets[id].cycles = 1
                 /\ sockets[id].readyState # "OPEN"
                 /\ id \notin DOMAIN connections

\* The second heartbeat terminated a connection that did not answer the first.
C12_Witness ==
    /\ heartbeats = 2
    /\ \E id \in DOMAIN sockets :
         sockets[id].closedBy = "heartbeat" /\ id \notin DOMAIN connections

\* A terminal message of the call, result or error, was written to its connection.
Terminal(call) ==
    \E i \in DOMAIN sent[wsCalls[call].conn] :
        /\ sent[wsCalls[call].conn][i].call = call
        /\ sent[wsCalls[call].conn][i].type \in {"result", "error"}

\* The call got its terminal message, or its connection is no longer open.
TerminalOrClosed(call) ==
    /\ call \in DOMAIN wsCalls
    /\ Terminal(call) \/ sockets[wsCalls[call].conn].readyState # "OPEN"

\* C13: a connection closed by a socket close, a socket error or the heartbeat is
\* not in the connection map, and nothing is written to it after it closed.
C13_NothingSentAfterClose ==
    \A id \in DOMAIN sockets :
        sockets[id].closedBy # None
            => /\ id \notin DOMAIN connections
               /\ sockets[id].readyState # "OPEN"
               /\ Len(sent[id]) = sockets[id].sentAtClose

\* A tool call in flight when its connection closed has settled since, and its
\* result was not written.
C13_Witness ==
    \E call \in DOMAIN wsCalls :
        /\ wsCalls[call].method = "tools/call"
        /\ wsCalls[call].name \in ToolNames
        /\ wsCalls[call].plan = <<>>
        /\ sockets[wsCalls[call].conn].closedBy # None
        /\ ~Terminal(call)

\* C14: on a connection, every progress update of a streaming call is written
\* before the call's terminal message, after its 'started' message and in
\* increasing order.
C14_ProgressBeforeResult ==
    \A id \in DOMAIN sent : \A i, j \in DOMAIN sent[id] :
        (/\ sent[id][i].call # 0
         /\ sent[id][i].call = sent[id][j].call
         /\ sent[id][i].type = "progress")
            => /\ sent[id][j].type \in {"result", "error"} => i < j
               /\ sent[id][j].type = "started" => j < i
               /\ (sent[id][j].type = "progress" /\ sent[id][i].n < sent[id][j].n) => i < j

\* A streaming call whose progress updates and result were all written.
C14_Witness ==
    \E call \in DOMAIN wsCalls :
        /\ wsCalls[call].method = "tools/stream"
        /\ wsCalls[call].progress = StreamStages
        /\ Terminal(call)
        /\ \A n \in 1..StreamStages :
              \E i \in DOMAIN sent[wsCalls[call].conn] :
                  sent[wsCalls[call].conn][i] = WsMessage("progress", call, 0, n)

\* C15: every streaming call received on a connection eventually gets a terminal
\* message, unless the connection closes.
C15_StreamingCallTerminates ==
    \A call \in 1..MaxInbound :
        (call \in DOMAIN wsCalls /\ wsCalls[call].method = "tools/stream")
            ~> TerminalOrClosed(call)

\* C16: every call of a registered tool received on a connection eventually gets a
\* response, whether or not its handler settles, unless the connection closes.
C16_ToolCallAnswered ==
    \A call \in 1..MaxInbound :
        (/\ call \in DOMAIN wsCalls
         /\ wsCalls[call].method = "tools/call"
         /\ wsCalls[call].name \in ToolNames)
            ~> TerminalOrClosed(call)

-----------------------------------------------------------------------------
(* JSON-RPC batches over HTTP and the REST tool routes                     *)

\* The handlers below keep no state from one request to the next: a behaviour
\* follows one request from the initial state.

\* POST /mcp with an array body.
HttpMcpBatch(body) ==
    /\ rpc = NoRpc
    /\ rpc' = handleHttpRequest(body)
    /\ UNCHANGED <<procVars, gateVars, httpVars, slidingVars, wsVars>>

\* POST /mcp with a single JSON-RPC object as body.
HttpMcpSingle(rpcRequest) ==
    /\ rpc = NoRpc
    /\ rpc' = postMcp(rpcRequest)
    /\ UNCHANGED <<procVars, gateVars, httpVars, slidingVars, wsVars>>

\* POST /api/tools/<toolName> with the tool's parameters as body.
RestToolPost(toolName, params, text) ==
    /\ rpc = NoRpc
    /\ rpc' = restPost(toolName, params, <<params>>, FALSE, text)
    /\ UNCHANGED <<procVars, gateVars, httpVars, slidingVars, wsVars>>

\* POST /api/tools/batch with body {requests}.
RestBatchPost(requests, isArray) ==
    /\ rpc = NoRpc
    /\ rpc' = restPost("batch", Entry("object", None, NullId, None, "batch", "valid", "ok"),
                       requests, isArray, "plain")
    /\ UNCHANGED <<procVars, gateVars, httpVars, slidingVars, wsVars>>

InitBatch ==
    /\ apiKeys = initializeDefaultApiKeys
    /\ authEnabled = TRUE
    /\ wsAuthSet = FALSE
    /\ client = [apiKey |-> None, token |-> None]
    /\ limits = LimiterMax
    /\ hits = [l \in Limiters |-> [k \in LimiterKeys |-> 0]]
    /\ connections = <<>>
    /\ invoked = [t \in ToolNames |-> 0]
    /\ last = NoExchange
    /\ InitSliding
    /\ InitWebSocket
    /\ InitRpc
    /\ InitGate
    /\ InitProc

NextBatch ==
    \/ \E body \in Bodies(RpcEntries) : HttpMcpBatch(body)
    \/ \E rpcRequest \in RpcEntries \ {NullEntry} : HttpMcpSingle(rpcRequest)
    \/ \E e \in RestEntries \ {NullEntry}, text \in MessageTexts :
          RestToolPost(e.name, e, text)
    \/ \E requests \in Bodies(RestEntries), isArray \in BOOLEAN :
          RestBatchPost(requests, isArray)

SpecBatch == InitBatch /\ [][NextBatch]_vars

-----------------------------------------------------------------------------
(* Properties of the batch handlers and of parameter validation            *)

HttpBatchAnswered == rpc.kind = "http-mcp" /\ rpc.by = "handleHttpRequest"

\* What handleJsonRpc answers to one entry taken alone.
AnswerAlone(entry) == handleHttpRequest(<<entry>>).responses[1]

\* C17: a JSON-RPC batch of k entries over HTTP is answered with status 200 and an
\* array of k responses in input order: the response at each position is the
\* one its own entry gets when sent alone (its own id; an error for a null, a
\* malformed or a failing entry), whatever its siblings are.
C17_BatchAnsweredInOrder ==
    HttpBatchAnswered =>
        /\ rpc.status = 200
        /\ Len(rpc.responses) = Len(rpc.body)
        /\ \A i \in DOMAIN rpc.body :
              /\ rpc.responses[i] = AnswerAlone(rpc.body[i])
              /\ rpc.body[i].shape = "object" => rpc.responses[i].id = rpc.body[i].id
              /\ (rpc.body[i].shape = "null" \/ rpc.body[i].outcome = "throws")
                    => rpc.responses[i].kind = "error"

\* A batch of three: a null entry, a failing call and a successful call, the
\* last one answered with its result.
C17_Witness ==
    /\ HttpBatchAnswered
    /\ Len(rpc.body) = 3
    /\ rpc.body[1].shape = "null"
    /\ rpc.body[2].outcome = "throws"
    /\ rpc.body[3].method = "tools/call" /\ rpc.responses[3].kind = "result"
    /\ rpc.responses[1].kind = "error" /\ rpc.responses[2].kind = "error"

RestBatchPosted == rpc.kind = "rest" /\ rpc.path = "batch"

\* C18: a REST batch of k sub-requests is answered with k per-item entries in
\* input order and a summary with total = k and successful + failed = k.
C18_RestBatchSettlesAll ==
    RestBatchPosted =>
        /\ Len(rpc.responses) = Len(rpc.body)
        /\ \A i \in DOMAIN rpc.body :
              rpc.body[i].shape = "object" => rpc.responses[i].tool = rpc.body[i].name
        /\ rpc.summary.total = Len(rpc.body)
        /\ rpc.summary.successful + rpc.summary.failed = Len(rpc.body)

\* C19: POST /api/tools/batch is handled by the batch handler, never as the
\* execution of a tool named "batch".
C19_BatchRouteReachesBatchHandler ==
    RestBatchPosted => rpc.by = "handleBatchExecution"

\* C20: a tools/call whose arguments violate the tool's schema is answered with
\* InvalidParams (-32602) and the tool's handler is not called.
C20_InvalidParamsBeforeHandler ==
    HttpBatchAnswered =>
        \A i \in DOMAIN rpc.body :
            (/\ i \in DOMAIN rpc.responses
             /\ rpc.body[i].method = "tools/call"
             /\ rpc.body[i].name \in ToolNames
             /\ rpc.body[i].args = "invalid")
                => /\ rpc.responses[i].code = -32602
                   /\ ~rpc.responses[i].handlerCalled

\* The failure kind of what the tool layer does with an entry: the name is not
\* registered, the arguments violate the schema, or the handler's work throws.
TrueFailureKind(entry) ==
    IF entry.name \notin ToolNames THEN "UnknownTool"
    ELSE IF entry.args = "invalid" THEN "InvalidParams"
    ELSE IF entry.outcome = "throws" THEN "ToolExecutionFailed"
    ELSE None

\* A tool invocation over HTTP JSON-RPC (entry i of a batch, or a single request)
\* or over REST that was answered by the adapter's handler.
ToolCallAnswered(i) ==
    /\ i \in DOMAIN rpc.body /\ i \in DOMAIN rpc.responses
    /\ rpc.body[i].shape = "object"
    /\ \/ /\ rpc.kind = "http-mcp" /\ rpc.by \in {"handleHttpRequest", "handleJsonRpc"}
          /\ rpc.body[i].jsonrpc = "2.0" /\ rpc.body[i].method = "tools/call"
       \/ rpc.kind = "rest" /\ rpc.by = "handleToolExecution" /\ rpc.path # "batch"

\* The failure kind the adapter reported for entry i.
ReportedKind(i) ==
    IF rpc.kind = "rest" THEN restFailureKind(rpc.status)
    ELSE jsonRpcFailureKind(rpc.responses[i].code)

\* C21: an invocation of a name that is not registered is answered with the
\* UnknownTool failure kind on every adapter, and no handler is called.
C21_UnknownToolSameKind ==
    \A i \in 1..MaxBatch :
        (ToolCallAnswered(i) /\ rpc.body[i].name \notin ToolNames)
            => /\ ~rpc.responses[i].handlerCalled
               /\ ReportedKind(i) = "UnknownTool"

C26_RestStatusFromKind ==
    (ToolCallAnswered(1) /\ rpc.kind = "rest" /\ TrueFailureKind(rpc.body[1]) # None)
        => restFailureKind(rpc.status) = TrueFailureKind(rpc.body[1])

\* An exchange over the HTTP JSON-RPC route that was answered with JSON-RPC
\* responses: by validateRequest, or by handleHttpRequest for a single object
\* or for an array.
JsonRpcAnswered == rpc.kind = "http-mcp"

C24_IdEchoed ==
    JsonRpcAnswered =>
        \A i \in DOMAIN rpc.responses :
            (i \in DOMAIN rpc.body /\ Len(rpc.responses) = Len(rpc.body))
                => rpc.responses[i].id = rpc.body[i].id

\* C25: an entry of a POST to the JSON-RPC route whose version tag is missing or
\* is not "2.0" is answered with an InvalidRequest error (-32600) and reaches no
\* method and no tool handler, as a single request and as an entry of a batch.
C25_VersionCheckedBeforeDispatch ==
    JsonRpcAnswered =>
        \A i \in DOMAIN rpc.body :
            (rpc.body[i].shape = "object" /\ rpc.body[i].jsonrpc # "2.0")
                => /\ i \in DOMAIN rpc.responses
                   /\ rpc.responses[i].kind = "error"
                   /\ rpc.responses[i].code = -32600
                   /\ ~rpc.responses[i].handlerCalled

\* A batch with an entry without version tag, an entry tagged "1.0" and a valid
\* call: the first two are refused, the third is executed.
C25_Witness ==
    /\ HttpBatchAnswered
    /\ Len(rpc.body) = 3
    /\ rpc.body[1].shape = "object" /\ rpc.body[1].jsonrpc = None
    /\ rpc.body[2].jsonrpc = "1.0"
    /\ rpc.responses[1].code = -32600 /\ rpc.responses[2].code = -32600
    /\ rpc.responses[3].kind = "result" /\ rpc.responses[3].handlerCalled

\* C27: an inbound WebSocket message that fails (here: it names a tool that is
\* not registered) does not close its connection, and once it is handled the
\* connection has been sent an error for it: as long as nothing else closed the
\* socket, the connection is in the live set and its log holds that error.
C27_FailureRenderedConnectionOpen ==
    \A call \in DOMAIN wsCalls :
        (/\ wsCalls[call].type = "mcp-request"
         /\ wsCalls[call].name \notin ToolNames
         /\ wsCalls[call].plan = <<>>
         /\ sockets[wsCalls[call].conn].closedBy = None)
            => /\ wsCalls[call].conn \in DOMAIN connections
               /\ sockets[wsCalls[call].conn].readyState = "OPEN"
               /\ \E k \in DOMAIN sent[wsCalls[call].conn] :
                     /\ sent[wsCalls[call].conn][k].type = "error"
                     /\ sent[wsCalls[call].conn][k].call = call

-----------------------------------------------------------------------------
(* protocols/websocket-mcp: subscriptions and broadcasts to subscribers    *)

Topics == {"news", "alerts"}

\* The connections open from the start of this part.
SubConnectionIds == {1, 2}

MaxSubscriptions == 2
MaxSent == 3

\* The `topics` arrays of subscribe and unsubscribe messages.
TopicArrays == {<<t>> : t \in Topics} \cup {<<t, t>> : t \in Topics}

\* The message broadcastToSubscribers builds: type 'broadcast', data {topic, ...}.
TopicMessage(topic) ==
    [type |-> "broadcast", call |-> 0, code |-> 0, n |-> 0, topic |-> topic]

\* subscriptions.includes(topic)
includes(subscriptions, topic) ==
    \E i \in DOMAIN subscriptions : subscriptions[i] = topic

\* handleSubscribe: connection.subscriptions.push(...topics)
handleSubscribe(conns, id, topics) ==
    [conns EXCEPT ![id].subscriptions = @ \o topics]

\* An unsubscribe that takes out one occurrence of each topic only.
handleUnsubscribeOnce(conns, id, topics) ==
    LET subs == conns[id].subscriptions
        found == {i \in DOMAIN subs : includes(topics, subs[i])}
        first == CHOOSE i \in found : \A j \in found : i <= j
    IN  IF found = {} THEN conns
        ELSE [conns EXCEPT ![id].subscriptions =
                 SubSeq(subs, 1, first - 1) \o SubSeq(subs, first + 1, Len(subs))]

\* handleUnsubscribe: subscriptions.filter(sub => !topics.includes(sub))
handleUnsubscribe(conns, id, topics) ==
    [conns EXCEPT ![id].subscriptions =
        SelectSeq(@, LAMBDA sub : ~includes(topics, sub))]

\* broadcastToSubscribers(topic, data): to every connection of the map that
\* includes the topic and whose socket is OPEN.
broadcastToSubscribers(conns, socks, log, topic) ==
    [id \in DOMAIN log |->
        IF /\ id \in DOMAIN conns
           /\ includes(conns[id].subscriptions, topic)
           /\ socks[id].readyState = "OPEN"
        THEN Append(log[id], TopicMessage(topic))
        ELSE log[id]]

\* handleMessage, case 'subscribe', with an array of topics.
Subscribe(id, topics) ==
    /\ id \in DOMAIN connections
    /\ sockets[id].readyState = "OPEN"
    /\ Len(connections[id].subscriptions) + Len(topics) <= MaxSubscriptions
    /\ connections' = handleSubscribe(connections, id, topics)
    /\ UNCHANGED <<procVars, rpcVars, gateVars, apiKeys, authEnabled, wsAuthSet, client, limits, hits, invoked,
                   last, slidingVars, wsVars>>

\* handleMessage, case 'unsubscribe', with an array of topics.
Unsubscribe(id, topics) ==
    /\ id \in DOMAIN connections
    /\ sockets[id].readyState = "OPEN"
    /\ connections' = handleUnsubscribe(connections, id, topics)
    /\ UNCHANGED <<procVars, rpcVars, gateVars, apiKeys, authEnabled, wsAuthSet, client, limits, hits, invoked,
                   last, slidingVars, wsVars>>

\* The server publishes on a topic.
BroadcastToSubscribers(topic) ==
    /\ \A id \in DOMAIN sent : Len(sent[id]) < MaxSent
    /\ sent' = broadcastToSubscribers(connections, sockets, sent, topic)
    /\ UNCHANGED <<procVars, rpcVars, gateVars, httpVars, slidingVars, sockets, wsCalls, heartbeats>>

\* Two connections have been accepted and sent their welcome message.
InitSubs ==
    /\ apiKeys = initializeDefaultApiKeys
    /\ authEnabled = TRUE
    /\ wsAuthSet = FALSE
    /\ client = [apiKey |-> None, token |-> None]
    /\ limits = LimiterMax
    /\ hits = [l \in Limiters |-> [k \in LimiterKeys |-> 0]]
    /\ connections = [id \in SubConnectionIds |->
                         [isAlive |-> TRUE, subscriptions |-> <<>>,
                          authenticated |-> TRUE, permissions |-> {"read", "analyze"}]]
    /\ invoked = [t \in ToolNames |-> 0]
    /\ last = NoExchange
    /\ InitSliding
    /\ sockets = [id \in SubConnectionIds |-> Socket("OPEN", None, 0, 0)]
    /\ wsCalls = <<>>
    /\ sent = [id \in SubConnectionIds |-> <<WsMessage("welcome", 0, 0, 0)>>]
    /\ heartbeats = 0
    /\ InitRpc
    /\ InitGate
    /\ InitProc

NextSubs ==
    \/ \E id \in SubConnectionIds, topics \in TopicArrays : Subscribe(id, topics)
    \/ \E id \in SubConnectionIds, topics \in TopicArrays : Unsubscribe(id, topics)
    \/ \E topic \in Topics : BroadcastToSubscribers(topic)
    \/ Broadcast
    \/ \E id \in SubConnectionIds : ConnectionError(id)
    \/ \E id \in SubConnectionIds : ConnectionClosed(id)

SpecSubs == InitSubs /\ [][NextSubs]_vars

\* The connection is in the live set and its socket is open.
LiveOpen(id) == id \in DOMAIN connections /\ sockets[id].readyState = "OPEN"

\* This step wrote a message to the connection.
Delivered(id) == Len(sent'[id]) = Len(sent[id]) + 1

\* This step wrote a broadcast for the topic to the connection.
TopicDelivered(id, topic) ==
    /\ Delivered(id)
    /\ "topic" \in DOMAIN sent'[id][Len(sent'[id])]
    /\ sent'[id][Len(sent'[id])].topic = topic

\* The occurrences of the topic in the subscriptions.
Occurrences(subscriptions, topic) ==
    Cardinality({i \in DOMAIN subscriptions : subscriptions[i] = topic})

\* C28: a step that delivers a broadcast for a topic writes it exactly once to
\* each live, open connection whose subscriptions include the topic and to no
\* other connection; a step that delivers a plain broadcast writes it once to
\* every live, open connection; and a step that takes a topic out of a
\* connection's subscriptions takes out every occurrence, so the connection is
\* no target of a later broadcast for it.
C28_BroadcastTargets ==
    [][ /\ \A topic \in Topics :
             (\E id \in DOMAIN sent : TopicDelivered(id, topic)) =>
                 \A id \in DOMAIN sent :
                     sent'[id] = IF LiveOpen(id)
                                    /\ includes(connections[id].subscriptions, topic)
                                 THEN Append(sent[id], TopicMessage(topic))
                                 ELSE sent[id]
        /\ (\E id \in DOMAIN sent :
                Delivered(id) /\ "topic" \notin DOMAIN sent'[id][Len(sent'[id])]) =>
                 \A id \in DOMAIN sent :
                     sent'[id] = IF LiveOpen(id)
                                 THEN Append(sent[id], WsMessage("broadcast", 0, 0, 0))
                                 ELSE sent[id]
        /\ \A id \in DOMAIN connections \cap DOMAIN connections', topic \in Topics :
             Occurrences(connections'[id].subscriptions, topic)
                 < Occurrences(connections[id].subscriptions, topic)
             => ~includes(connections'[id].subscriptions, topic)
      ]_vars

\* Connection 1 got one broadcast for news and is no longer subscribed to it;
\* connection 2, still subscribed, got a second one.
C28_Witness ==
    /\ LiveOpen(1) /\ LiveOpen(2)
    /\ ~includes(connections[1].subscriptions, "news")
    /\ includes(connections[2].subscriptions, "news")
    /\ Cardinality({k \in DOMAIN sent[1] : sent[1][k] = TopicMessage("news")}) = 1
    /\ Cardinality({k \in DOMAIN sent[2] : sent[2][k] = TopicMessage("news")}) = 2

-----------------------------------------------------------------------------
(* Properties of optional authentication and of the permission gates       *)

\* The routes behind optionalAuth alone.
OptionalAuthPaths == {"/health", "/api/health", "/api/tools/:toolName"}

\* C29: on a route behind optional authentication alone, a request whose API key
\* and bearer token are missing, invalid or revoked is never answered 401 or 403,
\* and reaches the route with exactly the default read-only permissions and no
\* credential attached.
C29_OptionalAuthNeverBlocks ==
    (/\ last.kind = "http"
     /\ last.req.path \in OptionalAuthPaths
     /\ Unverified(last.req, last.store))
        => /\ last.resp.status \notin {401, 403}
           /\ last.resp.by \in {"rest-api", "handleHealthCheck"} =>
                 /\ last.resp.permissions = ReadOnly
                 /\ last.resp.apiKey = None
                 /\ last.resp.userId = None

\* A REST tool execution sent with a revoked API key, executed with the default
\* permissions.
C29_Witness ==
    /\ last.kind = "http"
    /\ last.req.path = "/api/tools/:toolName"
    /\ PresentsRevoked(last.req, last.store)
    /\ last.resp.by = "rest-api"
    /\ last.resp.status = 200
    /\ last.resp.permissions = ReadOnly

\* A request whose permission set is `permissions` reaches a route guarded by a
\* gate; a behaviour follows one such request.
RunRequirePermission(permission, permissions) ==
    /\ gate = NoGate
    /\ gate' = GatedRoute("requirePermission", {permission}, permissions,
                          requirePermission(permission, permissions))
    /\ UNCHANGED <<procVars, rpcVars, httpVars, slidingVars, wsVars>>

RunRequirePermissions(required, permissions) ==
    /\ gate = NoGate
    /\ gate' = GatedRoute("requirePermissions", required, permissions,
                          requirePermissions(required, permissions))
    /\ UNCHANGED <<procVars, rpcVars, httpVars, slidingVars, wsVars>>

RunRequireAnyPermission(required, permissions) ==
    /\ gate = NoGate
    /\ gate' = GatedRoute("requireAnyPermission", required, permissions,
                          requireAnyPermission(required, permissions))
    /\ UNCHANGED <<procVars, rpcVars, httpVars, slidingVars, wsVars>>

InitGates ==
    /\ apiKeys = initializeDefaultApiKeys
    /\ authEnabled = TRUE
    /\ wsAuthSet = FALSE
    /\ client = [apiKey |-> None, token |-> None]
    /\ limits = LimiterMax
    /\ hits = [l \in Limiters |-> [k \in LimiterKeys |-> 0]]
    /\ connections = <<>>
    /\ invoked = [t \in ToolNames |-> 0]
    /\ last = NoExchange
    /\ InitSliding
    /\ InitWebSocket
    /\ InitRpc
    /\ InitGate
    /\ InitProc

NextGates ==
    \/ \E permission \in AdminPermissions, permissions \in SUBSET AdminPermissions :
          RunRequirePermission(permission, permissions)
    \/ \E required \in SUBSET AdminPermissions, permissions \in SUBSET AdminPermissions :
          RunRequirePermissions(required, permissions)
    \/ \E required \in SUBSET AdminPermissions, permissions \in SUBSET AdminPermissions :
          RunRequireAnyPermission(required, permissions)

SpecGates == InitGates /\ [][NextGates]_vars

\* Whether the caller's permission set satisfies the gate.
Satisfies(name, required, permissions) ==
    CASE name = "requirePermission" -> required \subseteq permissions
      [] name = "requirePermissions" -> required \subseteq permissions
      [] name = "requireAnyPermission" -> required \cap permissions # {}
      [] OTHER -> FALSE

\* C30: a permission gate lets the request through to the guarded handler if and
\* only if the caller's permission set satisfies it (requirePermission: contains
\* the permission; requirePermissions: contains all; requireAnyPermission:
\* contains at least one); otherwise it answers 403 naming the permissions that
\* are missing and the handler does not run.
C30_GatePassesIffSatisfied ==
    gate.gate # None =>
        /\ gate.handlerRan <=> Satisfies(gate.gate, gate.required, gate.permissions)
        /\ gate.handlerRan => gate.status = 200
        /\ ~gate.handlerRan =>
              /\ gate.status = 403
              /\ gate.named = IF gate.gate = "requireAnyPermission" THEN gate.required
                              ELSE gate.required \ gate.permissions

\* requireAnyPermission passed a caller that holds one of two permissions, and
\* requirePermissions would have refused it.
C30_Witness ==
    /\ gate.gate = "requireAnyPermission"
    /\ gate.required = {"read", "admin"}
    /\ gate.permissions = {"read"}
    /\ gate.handlerRan
    /\ requirePermissions(gate.required, gate.permissions) = GateResult(403, {"admin"})

-----------------------------------------------------------------------------
(* middleware/auth: the key store under createApiKey and revokeApiKey        *)

MaxCreatedKeys == 2

\* The ids uuidv4() gives the keys made by createApiKey, in order.
CreatedKeyIds == {"key-1", "key-2"}

\* An id no record carries.
UnknownKeyId == "no-such-key"

\* The permission arrays createApiKey is called with.
CreatedPermissions ==
    { {"read"}, {"read", "analyze"}, {"read", "stream"}, AdminPermissions }

\* AuthMiddleware.createApiKey: a new active record under a fresh id.
createApiKey(keyId, permissions, store) ==
    store @@ (keyId :> [key |-> hashApiKey(<<"cnis", keyId>>),
                        permissions |-> permissions, active |-> TRUE])

CreateApiKey(permissions) ==
    /\ Cardinality(DOMAIN apiKeys \cap CreatedKeyIds) < MaxCreatedKeys
    /\ LET keyId == IF "key-1" \in DOMAIN apiKeys THEN "key-2" ELSE "key-1"
       IN  apiKeys' = createApiKey(keyId, permissions, apiKeys)
    /\ UNCHANGED <<procVars, rpcVars, gateVars, authEnabled, wsAuthSet, client, limits, hits, connections, invoked, last,
                   slidingVars, wsVars>>

InitKeys ==
    /\ apiKeys = initializeDefaultApiKeys
    /\ authEnabled = TRUE
    /\ wsAuthSet = FALSE
    /\ client = [apiKey |-> None, token |-> None]
    /\ limits = LimiterMax
    /\ hits = [l \in Limiters |-> [k \in LimiterKeys |-> 0]]
    /\ connections = <<>>
    /\ invoked = [t \in ToolNames |-> 0]
    /\ last = NoExchange
    /\ InitSliding
    /\ InitWebSocket
    /\ InitRpc
    /\ InitGate
    /\ InitProc

NextKeys ==
    \/ \E permissions \in CreatedPermissions : CreateApiKey(permissions)
    \/ \E keyId \in DOMAIN apiKeys \cup {UnknownKeyId} : RevokeApiKey(keyId)

SpecKeys == InitKeys /\ [][NextKeys]_vars

\* C31: revoke(id) is idempotent: after one revoke the record of id still exists
\* with active = false, a second revoke of the same id changes nothing, and a
\* revoke changes no record other than the one of id.
C31_RevokeIdempotent ==
    [][\A keyId \in DOMAIN apiKeys \cup {UnknownKeyId} :
          RevokeApiKey(keyId) =>
              /\ DOMAIN apiKeys' = DOMAIN apiKeys
              /\ keyId \in DOMAIN apiKeys =>
                    /\ ~apiKeys'[keyId].active
                    /\ apiKeys'[keyId].key = apiKeys[keyId].key
                    /\ apiKeys'[keyId].permissions = apiKeys[keyId].permissions
              /\ \A other \in DOMAIN apiKeys \ {keyId} : apiKeys'[other] = apiKeys[other]
              /\ revokeApiKey(keyId, apiKeys') = apiKeys']_vars

\* One of three records has been revoked and the other two are still active.
C31_Witness ==
    /\ DOMAIN apiKeys = {"admin", "key-1", "key-2"}
    /\ ~apiKeys["key-1"].active
    /\ apiKeys["admin"].active
    /\ apiKeys["key-2"].active
    /\ revokeApiKey("key-1", apiKeys) = apiKeys

-----------------------------------------------------------------------------
(* The sliding-window limiter: retryAfter                                   *)

\* The times of the requests of the key of request i accepted before it and
\* still inside the window when it arrives.
ActiveBefore(i) ==
    {slog[h].time : h \in {h \in AcceptedOf(slog[i].key) :
                              h < i /\ slog[h].time > slog[i].time - swConfig.windowMs}}

\* Milliseconds from the arrival of request i until the oldest timestamp still
\* in its window leaves the window.
UntilOldestLeaves(i) ==
    LET oldest == CHOOSE t \in ActiveBefore(i) : \A u \in ActiveBefore(i) : t <= u
    IN  oldest + swConfig.windowMs - slog[i].time

SpecSlidingFair == SpecSlidingWindow /\ WF_vars(ClockAdvances)

\* The map holds `key` and every timestamp stored for it has left the window.
StaleKey(key) ==
    /\ key \in DOMAIN windows
    /\ \A i \in DOMAIN windows[key] : windows[key][i] <= now - swConfig.windowMs

\* C34: a key whose timestamps have all aged out of the window is eventually
\* removed from the map, whether or not the key sends another request.
C34_StaleKeyEventuallyRemoved ==
    \A key \in SlidingKeys : StaleKey(key) ~> (key \notin DOMAIN windows)

-----------------------------------------------------------------------------
(* The global limiter, one address, any x-api-key header, one window         *)

\* The x-api-key headers the client at ClientIp sends: none, or a value that is
\* no key of the store.
QuotaClients == {[apiKey |-> k, token |-> None] : k \in {None, UnknownSecret, ShortSecret}}

\* What it sends: a login and a tools/list over /mcp.
QuotaRequests(c) ==
    { Request("POST", "/auth/login", c, None, None, None),
      Request("POST", "/mcp", c, "2.0", "tools/list", None) }

InitQuota ==
    /\ apiKeys = initializeDefaultApiKeys
    /\ authEnabled = FALSE
    /\ wsAuthSet = FALSE
    /\ client = [apiKey |-> None, token |-> None]
    /\ limits = LimiterMax
    /\ hits = [l \in Limiters |-> [k \in LimiterKeys |-> 0]]
    /\ connections = <<>>
    /\ invoked = [t \in ToolNames |-> 0]
    /\ last = NoExchange
    /\ InitSliding
    /\ InitWebSocket
    /\ InitRpc
    /\ InitGate
    /\ InitProc

\* No window of any limiter runs out: every request falls in the same window.
NextQuota == \E c \in QuotaClients : \E req \in QuotaRequests(c) : HttpRequest(req)

SpecQuota == InitQuota /\ [][NextQuota]_vars

RECURSIVE PassedGlobal(_)
\* The requests the global limiter has passed on in this window, over the
\* limiter keys in `keys`: of the hits counted under a key, the first max.
PassedGlobal(keys) ==
    IF keys = {} THEN 0
    ELSE LET k == CHOOSE k \in keys : TRUE
             n == hits["global"][k]
         IN  (IF n <= limits["global"] THEN n ELSE limits["global"])
             + PassedGlobal(keys \ {k})

\* C39: the requests of one client address that the global limiter accepts in
\* one window number at most the configured max, whatever x-api-key header
\* values the requests carry.
C39_QuotaPerAddress == PassedGlobal(LimiterKeys) <= limits["global"]

-----------------------------------------------------------------------------
(* tools/tool-registry: getUniversalTools                                   *)

\* A caller enters getUniversalTools and runs it up to its first suspension:
\* with the cache unset it calls initializeTools and suspends at the await;
\* with the cache set it returns the cached array.
GetUniversalTools(c) ==
    /\ reg.returned[c] = NoArray
    /\ reg.promised[c] = NoArray
    /\ reg' = IF reg.toolsCache = NoArray
              THEN [reg EXCEPT !.inits = @ + 1,
                               !.promised[c] = initializeTools(reg.inits + 1),
                               !.awaiting = Append(@, c)]
              ELSE [reg EXCEPT !.returned[c] = reg.toolsCache]
    /\ UNCHANGED <<srv, tmo, rpcVars, gateVars, httpVars, slidingVars, wsVars>>

\* The oldest suspended caller resumes: `toolsCache = <the awaited array>;
\* return toolsCache`.
ResumeGetUniversalTools ==
    /\ reg.awaiting # <<>>
    /\ LET c == Head(reg.awaiting)
       IN  reg' = [reg EXCEPT !.toolsCache = reg.promised[c],
                              !.returned[c] = reg.promised[c],
                              !.awaiting = Tail(@)]
    /\ UNCHANGED <<srv, tmo, rpcVars, gateVars, httpVars, slidingVars, wsVars>>

InitRegistry ==
    /\ apiKeys = initializeDefaultApiKeys
    /\ authEnabled = TRUE
    /\ wsAuthSet = FALSE
    /\ client = [apiKey |-> None, token |-> None]
    /\ limits = LimiterMax
    /\ hits = [l \in Limiters |-> [k \in LimiterKeys |-> 0]]
    /\ connections = <<>>
    /\ invoked = [t \in ToolNames |-> 0]
    /\ last = NoExchange
    /\ InitSliding
    /\ InitWebSocket
    /\ InitRpc
    /\ InitGate
    /\ InitProc

NextRegistry ==
    \/ \E c \in Callers : GetUniversalTools(c)
    \/ ResumeGetUniversalTools

SpecRegistry == InitRegistry /\ [][NextRegistry]_vars

\* C35: the tool catalog is built exactly once per process: however the first
\* calls of getUniversalTools interleave, initializeTools runs at most once.
C35_CatalogBuiltOnce == reg.inits <= 1

\* The half of the sentence the code keeps: every caller is handed the same
\* tools in the same order.
SameCatalogContents ==
    \A c, d \in Callers :
        (reg.returned[c] # NoArray /\ reg.returned[d] # NoArray) =>
            reg.returned[c].tools = reg.returned[d].tools

-----------------------------------------------------------------------------
(* index, http-server: start-up and shutdown of the process                 *)

MinSecretLength == 32
GeneratedSecretLength == 64

ProtocolNames == {"rest-api", "http-mcp", "websocket-mcp", "stdio"}
Modes == {"stdio", "http", "full"}

\* What the process is started with. A secret is modelled by its length, 0 for
\* unset or empty: config.security.authentication.jwtSecret, process.env.JWT_SECRET.
ServerConfigs ==
    [jwtSecret : {0, 8, 31, 32, 36}, envSecret : {0, 31, 64},
     nodeEnv : {"production", "development"},
     protocols : SUBSET ProtocolNames, mode : Modes]

\* An initializeJwtSecret that, like validateConfig, only warns about a short secret.
initializeJwtSecretWarnOnly(config) ==
    LET secret == IF config.jwtSecret # 0 THEN config.jwtSecret ELSE config.envSecret
    IN  IF secret = 0
        THEN IF config.nodeEnv = "production" THEN [threw |-> TRUE, secret |-> 0]
             ELSE [threw |-> FALSE, secret |-> GeneratedSecretLength]
        ELSE [threw |-> FALSE, secret |-> secret]

\* AuthMiddleware.initializeJwtSecret: the secret in use, or an exception.
initializeJwtSecret(config) ==
    LET secret == IF config.jwtSecret # 0 THEN config.jwtSecret ELSE config.envSecret
    IN  IF secret = 0
        THEN IF config.nodeEnv = "production" THEN [threw |-> TRUE, secret |-> 0]
             ELSE [threw |-> FALSE, secret |-> GeneratedSecretLength]
        ELSE IF secret < MinSecretLength THEN [threw |-> TRUE, secret |-> 0]
        ELSE [threw |-> FALSE, secret |-> secret]

\* The process before `new UniversalMcpServer(config)`. `stdio` counts the runs of
\* setRequestHandler for a schema and the transports connected; `accepted` is the
\* adapters that have taken a request; exitCode is -1 while the process runs.
NewServer(config) ==
    [config |-> config, phase |-> "new", exitCode |-> -1, jwtSecret |-> 0,
     protocols |-> {}, listening |-> FALSE, pingInterval |-> FALSE,
     stdio |-> [handlers |-> 0, connects |-> 0],
     accepted |-> {}, cleanups |-> {}, failedCleanups |-> {}]

\* Server.connect on a server that already has a transport: the SDK either
\* replaces the transport or throws.
ConnectOutcomes == {"connects", "throws"}

connectThrows(stdio, outcome) == stdio.connects > 0 /\ outcome = "throws"

\* StdioProtocolHandler.initialize: install both request handlers, then connect
\* a new StdioServerTransport.
stdioInitialize(stdio, outcome) ==
    [handlers |-> stdio.handlers + 1,
     connects |-> IF connectThrows(stdio, outcome) THEN stdio.connects
                  ELSE stdio.connects + 1]

lifecycleOthers == <<reg, tmo, rpcVars, gateVars, httpVars, slidingVars, wsVars>>

\* new UniversalMcpServer(config) in startServer: the AuthMiddleware constructor
\* may throw, which startServer answers with process.exit(1); otherwise
\* setupProtocols registers the enabled handlers.
Construct ==
    /\ srv.phase = "new"
    /\ LET s == initializeJwtSecret(srv.config)
       IN  srv' = IF s.threw
                  THEN [srv EXCEPT !.phase = "exited", !.exitCode = 1]
                  ELSE [srv EXCEPT !.phase = "constructed", !.jwtSecret = s.secret,
                                   !.protocols = srv.config.protocols]
    /\ UNCHANGED lifecycleOthers

\* start(): initializeProtocols calls initialize() of every registered handler.
StartInitializeProtocols ==
    /\ srv.phase = "constructed"
    /\ srv' = [srv EXCEPT !.phase = "initialized",
                          !.pingInterval = "websocket-mcp" \in srv.protocols,
                          !.stdio = IF "stdio" \in srv.protocols
                                    THEN stdioInitialize(@, "connects") ELSE @]
    /\ UNCHANGED lifecycleOthers

\* start(): the switch on the mode. startStdioServer throws with stdio disabled
\* and otherwise calls stdioHandler.initialize(); the other modes listen.
StartMode(outcome) ==
    /\ srv.phase = "initialized"
    /\ srv' = IF srv.config.mode = "stdio"
              THEN IF "stdio" \notin srv.config.protocols
                   THEN [srv EXCEPT !.phase = "exited", !.exitCode = 1]
                   ELSE [srv EXCEPT !.stdio = stdioInitialize(@, outcome),
                                    !.phase = IF connectThrows(srv.stdio, outcome)
                                              THEN "exited" ELSE "running",
                                    !.exitCode = IF connectThrows(srv.stdio, outcome)
                                                 THEN 1 ELSE @]
              ELSE [srv EXCEPT !.listening = TRUE, !.phase = "running"]
    /\ UNCHANGED lifecycleOthers

\* An adapter takes its first request: the pipe adapter once a transport is
\* connected, the HTTP adapters once the server listens.
AcceptRequest(adapter) ==
    /\ srv.phase \in {"initialized", "running"}
    /\ adapter \in srv.protocols \ srv.accepted
    /\ IF adapter = "stdio" THEN srv.stdio.connects > 0 ELSE srv.listening
    /\ srv' = [srv EXCEPT !.accepted = @ \cup {adapter}]
    /\ UNCHANGED lifecycleOthers

\* A signal arrives and shutdown() runs up to its first await:
\* httpServer.close(callback) stops the server accepting connections.
ShutdownRequested ==
    /\ srv.phase = "running"
    /\ srv' = [srv EXCEPT !.phase = "closing", !.listening = FALSE]
    /\ UNCHANGED lifecycleOthers

\* The sockets of the HTTP server that have not closed; an upgraded socket stays
\* a connection of the server it was accepted by.
OpenSockets == {id \in DOMAIN sockets : sockets[id].readyState # "CLOSED"}

\* The callback of httpServer.close runs, which it does once no connection of
\* the server is left; shutdown() goes on to the cleanup of every handler, with
\* a rejection caught and logged, then rateLimitMiddleware.cleanup(), and the
\* signal handler exits. The WebSocket cleanup clears the interval and the map.
ShutdownCleanup(failing) ==
    /\ srv.phase = "closing"
    /\ OpenSockets = {}
    /\ failing \subseteq srv.protocols
    /\ srv' = [srv EXCEPT !.phase = "exited", !.exitCode = 0,
                          !.cleanups = srv.protocols,
                          !.failedCleanups = failing,
                          !.pingInterval = IF "websocket-mcp" \in srv.protocols
                                           THEN FALSE ELSE @]
    /\ connections' = IF "websocket-mcp" \in srv.protocols /\ "websocket-mcp" \notin failing
                      THEN <<>> ELSE connections
    /\ UNCHANGED <<reg, tmo, rpcVars, gateVars, apiKeys, authEnabled, wsAuthSet, client, limits,
                   hits, invoked, last, slidingVars, wsVars>>

InitLifecycle ==
    /\ apiKeys = initializeDefaultApiKeys
    /\ authEnabled = TRUE
    /\ wsAuthSet = FALSE
    /\ client = [apiKey |-> None, token |-> None]
    /\ limits = LimiterMax
    /\ hits = [l \in Limiters |-> [k \in LimiterKeys |-> 0]]
    /\ connections = <<>>
    /\ invoked = [t \in ToolNames |-> 0]
    /\ last = NoExchange
    /\ InitSliding
    /\ InitWebSocket
    /\ InitRpc
    /\ InitGate
    /\ reg = NoReg
    /\ tmo = NoTmo
    /\ srv \in {NewServer(config) : config \in ServerConfigs}

\* The WebSocket server takes connections while the HTTP server listens; the
\* heartbeat interval runs from startHeartbeat until clearInterval.
Serving == srv.phase \in {"running", "closing"}

NextLifecycle ==
    \/ Construct
    \/ StartInitializeProtocols
    \/ \E outcome \in ConnectOutcomes : StartMode(outcome)
    \/ \E adapter \in ProtocolNames \ {"websocket-mcp"} : AcceptRequest(adapter)
    \/ (Serving /\ srv.listening /\ "websocket-mcp" \in srv.protocols /\ HandleConnection)
    \/ (Serving /\ srv.pingInterval /\ Heartbeat)
    \/ \E id \in 1..MaxConnections : (Serving /\ Pong(id))
    \/ \E id \in 1..MaxConnections : (Serving /\ ConnectionClosed(id))
    \/ ShutdownRequested
    \/ \E failing \in SUBSET {"rest-api", "http-mcp"} : ShutdownCleanup(failing)

SpecLifecycle == InitLifecycle /\ [][NextLifecycle]_vars

\* The secret the process was configured with, as initializeJwtSecret reads it.
ConfiguredSecret ==
    IF srv.config.jwtSecret # 0 THEN srv.config.jwtSecret ELSE srv.config.envSecret

\* Some adapter is able to take requests, or has taken one.
AdapterUp ==
    \/ srv.listening
    \/ srv.stdio.connects > 0
    \/ srv.accepted # {}
    \/ sockets # <<>>

\* C32: with a signing secret configured that is shorter than 32 characters,
\* start-up aborts with a fatal error before any adapter accepts a request, and
\* no adapter ever serves while the secret in use is shorter than 32.
C32_ShortSecretAbortsStartup ==
    /\ (srv.phase # "new" /\ ConfiguredSecret # 0 /\ ConfiguredSecret < MinSecretLength) =>
          /\ srv.phase = "exited"
          /\ srv.exitCode = 1
          /\ ~AdapterUp
    /\ AdapterUp => srv.jwtSecret >= MinSecretLength

\* Construction with a 31-character secret has ended the process with exit
\* code 1, with every protocol enabled and no adapter started.
C32_Witness ==
    /\ srv.config.jwtSecret = 31
    /\ srv.config.protocols = ProtocolNames
    /\ srv.phase = "exited"
    /\ srv.exitCode = 1
    /\ ~AdapterUp

\* C36: in every start mode the pipe adapter establishes one logical session per
\* process: its request handlers are installed at most once and at most one
\* transport is connected.
C36_StdioSingleSession ==
    /\ srv.stdio.handlers <= 1
    /\ srv.stdio.connects <= 1

\* The server's own steps are taken when they can be: the close callback and the
\* cleanup after it, the heartbeat interval, and the close of a socket the
\* server has terminated. What a client does is left free.
SpecLifecycleFair ==
    /\ SpecLifecycle
    /\ WF_vars(\E failing \in SUBSET {"rest-api", "http-mcp"} : ShutdownCleanup(failing))
    /\ WF_vars(Serving /\ srv.pingInterval /\ Heartbeat)
    /\ WF_vars(\E id \in 1..MaxConnections :
                  /\ Serving
                  /\ id \in DOMAIN sockets
                  /\ sockets[id].readyState = "CLOSING"
                  /\ ConnectionClosed(id))

\* shutdown() has returned and the process has exited: the cleanup of every
\* registered handler ran, the heartbeat interval is cleared and the live
\* connection set is empty.
ShutdownComplete ==
    /\ srv.phase = "exited"
    /\ srv.exitCode = 0
    /\ srv.cleanups = srv.protocols
    /\ ~srv.pingInterval
    /\ connections = <<>>

\* C37: graceful shutdown, once requested, eventually completes, also with
\* WebSocket connections open and with an adapter's cleanup failing.
C37_ShutdownCompletes == (srv.phase = "closing") ~> ShutdownComplete

\* With no socket of the HTTP server left open, a requested shutdown completes
\* whichever cleanups fail.
ShutdownCompletesOnceDrained ==
    (srv.phase = "closing" /\ OpenSockets = {}) ~> ShutdownComplete

-----------------------------------------------------------------------------
(* middleware/security timeout against the route handlers                   *)

MaxInFlight == 2

InFlight == 1..MaxInFlight

\* The routes whose handler awaits a tool: POST /api/tools/:toolName
\* (handleToolExecution) and POST /mcp (handleHttpRequest).
TimedRoutes == {"rest-api", "http-mcp"}

\* How the awaited tool call settles, and the status the handler then writes.
Settlements == {"resolves", "rejects"}

\* The major version of express the build resolves: 4 drops the promise a
\* handler returns, 5 passes its rejection to next(err).
ExpressVersions == {4, 5}

\* One request: the route it is on ("none": not arrived), the timer of the
\* timeout middleware, the handler, the statuses written to the response, in
\* order, and whether the handler's promise rejected.
NoRequest ==
    [route |-> "none", timer |-> "none", handler |-> "none", written |-> <<>>,
     rejected |-> FALSE]

\* res.headersSent
headersSent(req) == req.written # <<>>

\* res.status(status).json(body): writes the response, or throws
\* ERR_HTTP_HEADERS_SENT from setHeader when one has been written. Writing
\* finishes the response, and res.on('finish') clears the timer.
resJson(req, status) ==
    IF headersSent(req)
    THEN [req |-> req, threw |-> TRUE]
    ELSE [req |-> [req EXCEPT !.written = Append(@, status),
                              !.timer = IF @ = "armed" THEN "cleared" ELSE @],
          threw |-> FALSE]

\* The callback of setTimeout in timeout(): `if (!res.headersSent)` answer 408.
timeoutFires(req) ==
    IF headersSent(req) THEN [req EXCEPT !.timer = "fired"]
    ELSE [resJson(req, 408).req EXCEPT !.timer = "fired"]

\* handleToolExecution and handleHttpRequest from the point the awaited call
\* settles: res.json in the try, and in the catch, which also takes what
\* res.json throws, res.status(...).json; what the catch throws rejects the
\* promise the handler returned.
handlerSettles(req, settlement) ==
    LET tried == IF settlement = "resolves" THEN resJson(req, 200)
                 ELSE [req |-> req, threw |-> TRUE]
        caught == IF tried.threw THEN resJson(tried.req, 500) ELSE tried
    IN  [caught.req EXCEPT !.handler = "settled", !.rejected = caught.threw]

tmoOthers == <<reg, srv, rpcVars, gateVars, httpVars, slidingVars, wsVars>>

\* A request passes the timeout middleware, which arms the timer and calls
\* next(), and reaches its handler, which suspends at the tool call.
RequestArrives(r, mount) ==
    /\ tmo.process = "up"
    /\ tmo.requests[r].route = "none"
    /\ tmo' = [tmo EXCEPT !.requests[r] =
                  [NoRequest EXCEPT !.route = mount, !.timer = "armed",
                                    !.handler = "running"]]
    /\ UNCHANGED tmoOthers

\* timeoutMs have passed and the timer was not cleared.
TimerFires(r) ==
    /\ tmo.process = "up"
    /\ tmo.requests[r].timer = "armed"
    /\ tmo' = [tmo EXCEPT !.requests[r] = timeoutFires(@)]
    /\ UNCHANGED tmoOthers

\* The tool call of a handler settles and the handler runs to its end. A
\* rejected handler promise is an unhandledRejection under express 4, which
\* index.ts answers with server.shutdown() and process.exit(1); express 5 hands
\* it to errorHandler, whose own res.json throws into the final handler.
HandlerSettles(r, settlement) ==
    /\ tmo.process = "up"
    /\ tmo.requests[r].handler = "running"
    /\ LET req == handlerSettles(tmo.requests[r], settlement)
       IN  tmo' = [tmo EXCEPT !.requests[r] = req,
                              !.process = IF req.rejected /\ tmo.express = 4
                                          THEN "exited" ELSE @]
    /\ UNCHANGED tmoOthers

InitTimeout ==
    /\ apiKeys = initializeDefaultApiKeys
    /\ authEnabled = TRUE
    /\ wsAuthSet = FALSE
    /\ client = [apiKey |-> None, token |-> None]
    /\ limits = LimiterMax
    /\ hits = [l \in Limiters |-> [k \in LimiterKeys |-> 0]]
    /\ connections = <<>>
    /\ invoked = [t \in ToolNames |-> 0]
    /\ last = NoExchange
    /\ InitSliding
    /\ InitWebSocket
    /\ InitRpc
    /\ InitGate
    /\ reg = NoReg
    /\ srv = NoSrv
    /\ \E express \in ExpressVersions :
          tmo = [express |-> express, process |-> "up",
                 requests |-> [r \in InFlight |-> NoRequest]]

NextTimeout ==
    \/ \E r \in InFlight, mount \in TimedRoutes : RequestArrives(r, mount)
    \/ \E r \in InFlight : TimerFires(r)
    \/ \E r \in InFlight, settlement \in Settlements : HandlerSettles(r, settlement)

SpecTimeout == InitTimeout /\ [][NextTimeout]_vars

\* At most one response is written per request.
AtMostOneResponse == \A r \in InFlight : Len(tmo.requests[r].written) <= 1

====
